---- MODULE Spec2Model ----
(***************************************************************************)
(* Behaviour orchestration of the VRM avatar: locomotion (walkMenu),       *)
(* autonomous wandering (randomMenu), idle cycle (idleLoopMenu), gaze      *)
(* (lookAtPlayerMenu) and the discrete action dispatcher (actionMenu).     *)
(*                                                                         *)
(* Units: lengths in millimetres, times in milliseconds, angles in whole   *)
(* degrees.  JavaScript is single threaded: every handler runs to its      *)
(* first unresolved await; the continuation after a clip lookup is a       *)
(* separate step, the continuation after an already settled promise        *)
(* (a rejected beginMoveTo) runs as a microtask at the end of the step.    *)
(***************************************************************************)
EXTENDS Integers, Sequences, FiniteSets, TLC

(***************************************************************************)
(* Program constants.                                                      *)
(***************************************************************************)
TURN_THRESHOLD == 120
TURN_MIN_DURATION == 350
TURN_MAX_DURATION == 800
WALK_SPEED == 900
STOP_DISTANCE == 20
BODY_TURN_THRESHOLD == 90
BODY_TURN_MIN_DURATION == 350
BODY_TURN_MAX_DURATION == 800
MIN_DISTANCE_SQ == 100
RANDOM_RANGE_MAX == 3000
RANDOM_WAIT_SECONDS == 6000
RANDOM_WAVE_DELAY_MIN == 1500
RANDOM_WAVE_DELAY_MAX == 4000
COME_HERE_FRONT_SKIP_THRESHOLD == 1000
FRONT_DISTANCE == 1500
APPROACH_MARGIN == 500
APPROACH_MIN == 100
TURN_TO_PLAYER_DURATION == 500
WAVE_DEFAULT_DURATION == 2500
IDLE_DEFAULT_DURATION == 2900
IDLE_OVERLAP_SECONDS == 500
BLINK_CLOSE_DURATION == 100
BLINK_HOLD_DURATION == 50
BLINK_OPEN_DURATION == 150
\* lookDownAction: angles in hundredths of a degree, speeds per second,
\* bone weights in hundredths
MANUAL_LOOK_DOWN_MIN_DEGREES == 0 - 4500
MANUAL_LOOK_DOWN_MAX_DEGREES == 4500
LOOK_DOWN_BONE_MIN_DEGREES == 0 - 6500
LOOK_DOWN_BONE_MAX_DEGREES == 3500
LOOK_DOWN_APPLY_SPEED == 8
LOOK_DOWN_RELEASE_SPEED == 5
LOOK_DOWN_EPSILON_DEGREES == 50
HEAD_WEIGHT == 68
NECK_WEIGHT == 32
\* the neck angle used when the viewer's head is below 1 m
LOW_VIEWER_NECK_DEGREES == 2000
\* autoBlinkManager: first countdown, interval range (ms); its blink
\* durations are those of the manual blink
AUTO_BLINK_FIRST == 5000
AUTO_BLINK_MIN_INTERVAL == 2000
AUTO_BLINK_MAX_INTERVAL == 8000
Infinity == 1000000000

(***************************************************************************)
(* Bounds of the model.                                                    *)
(***************************************************************************)
\* frame lengths are multiples of half a second, up to MaxFrameUnits of them
MaxFrameUnits == 1
\* outstanding clip lookups of one kind
MaxPending == 1
\* avatar (re)loads
MaxLoads == 1
\* commands of the user (button clicks, camera moves)
MaxCommands == 2
\* animation frames
MaxTicks == 4

\* idle clip durations up to MaxClipUnits * 50 ms
MaxClipUnits == 60

Deltas == {k * 500 : k \in 1..MaxFrameUnits}

(***************************************************************************)
(* Arithmetic.                                                             *)
(***************************************************************************)
Abs(a) == IF a < 0 THEN 0 - a ELSE a
Min(a, b) == IF a < b THEN a ELSE b
Max(a, b) == IF a > b THEN a ELSE b
Clamp(v, lo, hi) == Max(lo, Min(hi, v))
Sign(a) == IF a < 0 THEN 0 - 1 ELSE IF a > 0 THEN 1 ELSE 0

\* a / b rounded to the nearest integer (b > 0)
RoundDiv(a, b) == IF a >= 0 THEN (2 * a + b) \div (2 * b)
                  ELSE 0 - ((2 * (0 - a) + b) \div (2 * b))

RECURSIVE SqrtIter(_, _, _)
SqrtIter(n, lo, hi) ==
  IF lo >= hi THEN lo
  ELSE LET mid == (lo + hi + 1) \div 2
       IN IF mid * mid <= n THEN SqrtIter(n, mid, hi) ELSE SqrtIter(n, lo, mid - 1)

\* Math.sqrt / Math.hypot on millimetres, rounded down
Sqrt(n) == SqrtIter(n, 0, 46340)
Hypot(dx, dz) == Sqrt(dx * dx + dz * dz)

\* atan(a / b) in degrees for 0 <= a <= b, b > 0
AtanRatio(a, b) ==
  LET x == (a * 1000) \div b
      milli == 45 * x + (1564 * x * (1000 - x)) \div 100000
  IN (milli + 500) \div 1000

\* Math.atan2(dx, dz) in degrees, in (-180, 180]
Atan2(dx, dz) ==
  IF dx = 0 /\ dz = 0 THEN 0
  ELSE LET a == Abs(dx)
           b == Abs(dz)
           base == IF b >= a THEN AtanRatio(a, b) ELSE 90 - AtanRatio(b, a)
       IN IF dz >= 0 THEN Sign(dx) * base
          ELSE IF dx >= 0 THEN 180 - base ELSE 0 - (180 - base)

\* THREE.MathUtils.euclideanModulo(angle + PI, 2 PI) - PI
normalizeRadians(angle) == ((angle + 180) % 360) - 180

\* clamp(|delta| * DURATION_PER_RAD, min, max): 0.35 s per radian
TurnDuration(delta, lo, hi) == Clamp((Abs(delta) * 6109) \div 1000, lo, hi)

\* Math.min(elapsed / Math.max(duration, EPSILON), 1) in thousandths
Progress(elapsed, duration) ==
  IF duration <= 0 THEN 1000 ELSE Min((elapsed * 1000) \div duration, 1000)

\* THREE.MathUtils.smoothstep(progress, 0, 1) in thousandths
Smoothstep(p) ==
  IF p <= 0 THEN 0 ELSE IF p >= 1000 THEN 1000
  ELSE (p * p * (3000 - 2 * p)) \div 1000000

\* THREE.MathUtils.degToRad: hundredths of a degree to microradians
degToRad(degrees) == RoundDiv(degrees * 17453, 100)

\* THREE.MathUtils.radToDeg: microradians to hundredths of a degree
radToDeg(radians) == RoundDiv(radians * 100, 17453)

\* the sum of the terms term, -term * x / n, term * x^2 / (n (n + 1)), ...
\* of the series of exp(-x); x in thousandths, terms in millionths
RECURSIVE ExpSeries(_, _, _)
ExpSeries(term, x, n) ==
  IF term = 0 \/ n > 12 THEN 0
  ELSE term - ExpSeries((term * x) \div (1000 * n), x, n + 1)

\* 1 - Math.exp(-x) in thousandths, x in thousandths, 0 <= x <= 2000
OneMinusExp(x) == (1000000 - ExpSeries(1000000, x, 1)) \div 1000

\* THREE.MathUtils.lerp(a, b, t) with t in thousandths
Lerp(a, b, t) == a + RoundDiv((b - a) * t, 1000)


(***************************************************************************)
(* State.  Each variable is one controller's state object; walkReq and     *)
(* reqs are the async calls suspended at an await; ev is what the last     *)
(* step emitted (status texts, playClip calls, completions); obs is a      *)
(* history variable about the current walk.  The field micro of the step   *)
(* record is the microtask queue of the running step.  idleClipDuration is *)
(* the duration of the idle clips in the catalog.                          *)
(***************************************************************************)
VARIABLES vrm, viewer, playback, walkState, walkReq, randomState, idleState,
          lookAtState, actionState, comeHereState, comeHereFrontState,
          waveState, blinkState, lookDownState, reqs, loads, cmds, ticks, ev, obs, clock,
          idleClipDuration,
          autoBlinkState, blinkValue, sinceAutoBlink, boneRotationX, clipPoseX,
          neckResult, idleStale, waitElapsed

vars == <<vrm, viewer, playback, walkState, walkReq, randomState, idleState,
          lookAtState, actionState, comeHereState, comeHereFrontState,
          waveState, blinkState, lookDownState, reqs, loads, cmds, ticks, ev, obs, clock,
          idleClipDuration,
          autoBlinkState, blinkValue, sinceAutoBlink, boneRotationX, clipPoseX,
          neckResult, idleStale, waitElapsed>>

\* the program state as one record; handlers are functions on it
S == [vrm |-> vrm, viewer |-> viewer, playback |-> playback,
      walk |-> walkState, walkReq |-> walkReq, random |-> randomState,
      idle |-> idleState, look |-> lookAtState, action |-> actionState,
      ch |-> comeHereState, chf |-> comeHereFrontState, wave |-> waveState,
      blink |-> blinkState, neck |-> lookDownState, reqs |-> reqs,
      loads |-> loads, cmds |-> cmds, ticks |-> ticks, micro |-> <<>>,
      ev |-> {}, auto |-> autoBlinkState, eyelid |-> blinkValue,
      since |-> sinceAutoBlink, bones |-> boneRotationX, clipPose |-> clipPoseX,
      neckResult |-> neckResult, stale |-> idleStale,
      wait |-> waitElapsed]

Emit(s, kind, what) == [s EXCEPT !.ev = @ \cup {<<kind, what>>}]

\* setStatusText(element, text): the status sink
setStatus(s, text) == Emit(s, "status", text)

NoTurn == [active |-> FALSE, startAngle |-> 0, targetAngle |-> 0,
           duration |-> 0, elapsed |-> 0]

NoWalkReq == [caller |-> "none", x |-> 0, z |-> 0, statusSetter |-> FALSE]

(***************************************************************************)
(* vrmManager: playback state.                                             *)
(***************************************************************************)
\* a clip played with excludeBones is filtered into a new clip object
\* on every call, so its action is never the current one; "action started"
\* records nextAction.reset().play()
playClip(s, label, filtered, who) ==
  IF ~s.vrm.loaded THEN s
  ELSE LET t0 == Emit(Emit(s, "playClip", who), "clipAction", label)
           t == IF filtered THEN Emit(t0, "excludeBones", label) ELSE t0
       IN IF ~filtered /\ ~t.playback.filtered
             /\ t.playback.currentClipLabel = label
          THEN t
          ELSE [Emit(t, "mixer", "action started")
                  EXCEPT !.playback.currentClipLabel = label,
                         !.playback.filtered = filtered,
                         !.playback.owner = who]

stopAnimation(s) ==
  [s EXCEPT !.playback.currentClipLabel = "", !.playback.filtered = FALSE,
            !.playback.owner = "none"]

(***************************************************************************)
(* walkMenu.                                                               *)
(***************************************************************************)
applyLogicalPosition(s) ==
  IF ~s.vrm.loaded THEN s
  ELSE [s EXCEPT !.vrm.x = s.walk.logicalPosition.x,
                 !.vrm.z = s.walk.logicalPosition.z]

beginTurnTowards(s, desiredAngle) ==
  IF ~s.vrm.loaded THEN [s EXCEPT !.walk.turnState.active = FALSE]
  ELSE LET currentAngle == normalizeRadians(s.vrm.yaw)
           delta == normalizeRadians(desiredAngle - currentAngle)
       IN IF Abs(delta) < TURN_THRESHOLD
          THEN [s EXCEPT !.walk.turnState.active = FALSE,
                         !.walk.turnState.elapsed = 0]
          ELSE [s EXCEPT !.walk.turnState =
                  [active |-> TRUE, startAngle |-> currentAngle,
                   targetAngle |-> currentAngle + delta,
                   duration |-> TurnDuration(delta, TURN_MIN_DURATION,
                                             TURN_MAX_DURATION),
                   elapsed |-> 0]]

prepareTurnForCurrentTarget(s) ==
  LET dx == s.walk.target.x - s.walk.logicalPosition.x
      dz == s.walk.target.z - s.walk.logicalPosition.z
  IN IF dx * dx + dz * dz <= MIN_DISTANCE_SQ
     THEN [s EXCEPT !.walk.turnState.active = FALSE,
                    !.walk.turnState.elapsed = 0]
     ELSE beginTurnTowards(s, Atan2(dx, dz))

\* the state after advanceTurn; it returns true iff the turn is no longer
\* active afterwards
advanceTurn(s, delta) ==
  IF ~s.walk.turnState.active THEN s
  ELSE IF ~s.vrm.loaded THEN [s EXCEPT !.walk.turnState.active = FALSE]
  ELSE LET elapsed == s.walk.turnState.elapsed + delta
           progress == Progress(elapsed, s.walk.turnState.duration)
           nextAngle == Lerp(s.walk.turnState.startAngle,
                             s.walk.turnState.targetAngle,
                             Smoothstep(progress))
       IN [s EXCEPT !.walk.turnState.elapsed = elapsed,
                    !.vrm.yaw = nextAngle,
                    !.walk.turnState.active = (progress < 1000)]

\* statusMessage "null" stands for a null message
finishWalking(s, statusMessage, preserveAnimation, statusSetter) ==
  LET s1 == [s EXCEPT !.walk.moving = FALSE]
      s2 == IF ~preserveAnimation THEN stopAnimation(s1) ELSE s1
      s3 == [s2 EXCEPT !.walk.turnState.active = FALSE,
                       !.walk.turnState.elapsed = 0]
      s4 == IF statusMessage # "null" /\ (statusSetter \/ s.walk.statusSetter)
            THEN setStatus(s3, statusMessage) ELSE s3
  IN [s4 EXCEPT !.walk.statusSetter = FALSE, !.walk.arrivalMessage = "",
                !.walk.preserveAnimationOnFinish = FALSE]

\* beginMoveTo without the loading flag
beginMoveToMutantNoLoading(s0, x, z, caller, opts) ==
  LET s == Emit(s0, "moveRequest", caller)
  IN
  IF s.walk.loading \/ s.walk.moving
  THEN [s EXCEPT !.micro = Append(@, [caller |-> caller, ok |-> FALSE])]
  ELSE IF ~s.vrm.loaded
  THEN [s EXCEPT !.micro = Append(@, [caller |-> caller, ok |-> FALSE])]
  ELSE LET s1 == [s EXCEPT !.walk.statusSetter = opts.statusSetter,
                           !.walk.arrivalMessage = opts.arrivalMessage,
                           !.walk.preserveAnimationOnFinish = opts.preserveAnimation,
                           !.walkReq = [caller |-> caller, x |-> x, z |-> z,
                                        statusSetter |-> opts.statusSetter]]
       IN IF opts.statusSetter THEN setStatus(s1, "preparing") ELSE s1

\* beginMoveTo up to its first await.  A rejected call returns false at
\* once: the caller's continuation is queued as a microtask.
beginMoveTo(s0, x, z, caller, opts) ==
  LET s == Emit(s0, "moveRequest", caller)
  IN
  IF s.walk.loading \/ s.walk.moving
  THEN [s EXCEPT !.micro = Append(@, [caller |-> caller, ok |-> FALSE])]
  ELSE IF ~s.vrm.loaded
  THEN [s EXCEPT !.micro = Append(@, [caller |-> caller, ok |-> FALSE])]
  ELSE LET s1 == [s EXCEPT !.walk.loading = TRUE,
                           !.walk.statusSetter = opts.statusSetter,
                           !.walk.arrivalMessage = opts.arrivalMessage,
                           !.walk.preserveAnimationOnFinish = opts.preserveAnimation,
                           !.walkReq = [caller |-> caller, x |-> x, z |-> z,
                                        statusSetter |-> opts.statusSetter]]
       IN IF opts.statusSetter THEN setStatus(s1, "preparing") ELSE s1

\* beginMoveTo after its awaits: the clip lookup succeeded (ok) or threw
beginMoveToResume(s, ok) ==
  LET r == s.walkReq
      s1 == IF ok
            THEN LET a == [s EXCEPT !.walk.target = [x |-> r.x, z |-> r.z],
                                    !.walk.moving = TRUE]
                     b == prepareTurnForCurrentTarget(a)
                     c == Emit(playClip(b, "walk", FALSE, "walk"), "walk", "started")
                 IN IF r.statusSetter
                    THEN setStatus(c, IF c.walk.turnState.active
                                      THEN "turning" ELSE "moving")
                    ELSE c
            ELSE IF r.statusSetter THEN setStatus(s, "walk clip failed") ELSE s
  IN [s1 EXCEPT !.walk.loading = FALSE, !.walkReq = NoWalkReq,
                !.micro = Append(@, [caller |-> r.caller, ok |-> ok])]

\* updateWalk without the snap to the target on arrival
updateWalkMutantNoSnap(s, delta) ==
  IF ~s.vrm.loaded THEN s
  ELSE LET s1 == applyLogicalPosition(s)
       IN IF ~s1.walk.moving THEN s1
          ELSE LET s2 == IF s1.walk.turnState.active
                         THEN advanceTurn(s1, delta) ELSE s1
               IN IF s2.walk.turnState.active THEN s2
                  ELSE
                  LET s3 == IF s1.walk.turnState.active /\ s2.walk.statusSetter
                            THEN setStatus(s2, "moving") ELSE s2
                      position == s3.walk.logicalPosition
                      dx == s3.walk.target.x - position.x
                      dz == s3.walk.target.z - position.z
                      distance == Hypot(dx, dz)
                  IN IF distance <= STOP_DISTANCE
                     THEN LET a == s3
                              b == Emit(applyLogicalPosition(a), "walk", "arrived")
                          IN finishWalking(b, b.walk.arrivalMessage,
                                           b.walk.preserveAnimationOnFinish,
                                           b.walk.statusSetter)
                     ELSE LET move == Min(distance, (WALK_SPEED * delta) \div 1000)
                              a == [s3 EXCEPT
                                      !.walk.logicalPosition.x = @ + RoundDiv(dx * move, distance),
                                      !.walk.logicalPosition.z = @ + RoundDiv(dz * move, distance)]
                              b == applyLogicalPosition(a)
                          IN [b EXCEPT !.vrm.yaw = Atan2(dx, dz)]

\* updateWalk that translates in the tick in which it turns
updateWalkMutantWalksWhileTurning(s, delta) ==
  IF ~s.vrm.loaded THEN s
  ELSE LET s1 == applyLogicalPosition(s)
       IN IF ~s1.walk.moving THEN s1
          ELSE LET s2 == IF s1.walk.turnState.active
                         THEN advanceTurn(s1, delta) ELSE s1
               IN
                  LET s3 == IF s1.walk.turnState.active /\ s2.walk.statusSetter
                            THEN setStatus(s2, "moving") ELSE s2
                      position == s3.walk.logicalPosition
                      dx == s3.walk.target.x - position.x
                      dz == s3.walk.target.z - position.z
                      distance == Hypot(dx, dz)
                  IN IF distance <= STOP_DISTANCE
                     THEN LET a == [s3 EXCEPT !.walk.logicalPosition = s3.walk.target]
                              b == Emit(applyLogicalPosition(a), "walk", "arrived")
                          IN finishWalking(b, b.walk.arrivalMessage,
                                           b.walk.preserveAnimationOnFinish,
                                           b.walk.statusSetter)
                     ELSE LET move == Min(distance, (WALK_SPEED * delta) \div 1000)
                              a == [s3 EXCEPT
                                      !.walk.logicalPosition.x = @ + RoundDiv(dx * move, distance),
                                      !.walk.logicalPosition.z = @ + RoundDiv(dz * move, distance)]
                              b == applyLogicalPosition(a)
                          IN [b EXCEPT !.vrm.yaw = Atan2(dx, dz)]

\* updateWalk whose step is not clamped to the remaining distance
updateWalkMutantNoClamp(s, delta) ==
  IF ~s.vrm.loaded THEN s
  ELSE LET s1 == applyLogicalPosition(s)
       IN IF ~s1.walk.moving THEN s1
          ELSE LET s2 == IF s1.walk.turnState.active
                         THEN advanceTurn(s1, delta) ELSE s1
               IN IF s2.walk.turnState.active THEN s2
                  ELSE
                  LET s3 == IF s1.walk.turnState.active /\ s2.walk.statusSetter
                            THEN setStatus(s2, "moving") ELSE s2
                      position == s3.walk.logicalPosition
                      dx == s3.walk.target.x - position.x
                      dz == s3.walk.target.z - position.z
                      distance == Hypot(dx, dz)
                  IN IF distance <= STOP_DISTANCE
                     THEN LET a == [s3 EXCEPT !.walk.logicalPosition = s3.walk.target]
                              b == Emit(applyLogicalPosition(a), "walk", "arrived")
                          IN finishWalking(b, b.walk.arrivalMessage,
                                           b.walk.preserveAnimationOnFinish,
                                           b.walk.statusSetter)
                     ELSE LET move == (WALK_SPEED * delta) \div 1000
                              a == [s3 EXCEPT
                                      !.walk.logicalPosition.x = @ + RoundDiv(dx * move, distance),
                                      !.walk.logicalPosition.z = @ + RoundDiv(dz * move, distance)]
                              b == applyLogicalPosition(a)
                          IN [b EXCEPT !.vrm.yaw = Atan2(dx, dz)]

updateWalk(s, delta) ==
  IF ~s.vrm.loaded THEN s
  ELSE LET s1 == applyLogicalPosition(s)
       IN IF ~s1.walk.moving THEN s1
          ELSE LET s2 == IF s1.walk.turnState.active
                         THEN advanceTurn(s1, delta) ELSE s1
               IN IF s2.walk.turnState.active THEN s2
                  ELSE
                  LET s3 == IF s1.walk.turnState.active /\ s2.walk.statusSetter
                            THEN setStatus(s2, "moving") ELSE s2
                      position == s3.walk.logicalPosition
                      dx == s3.walk.target.x - position.x
                      dz == s3.walk.target.z - position.z
                      distance == Hypot(dx, dz)
                  IN IF distance <= STOP_DISTANCE
                     THEN LET a == [s3 EXCEPT !.walk.logicalPosition = s3.walk.target]
                              b == Emit(applyLogicalPosition(a), "walk", "arrived")
                          IN finishWalking(b, b.walk.arrivalMessage,
                                           b.walk.preserveAnimationOnFinish,
                                           b.walk.statusSetter)
                     ELSE LET move == Min(distance, (WALK_SPEED * delta) \div 1000)
                              a == [s3 EXCEPT
                                      !.walk.logicalPosition.x = @ + RoundDiv(dx * move, distance),
                                      !.walk.logicalPosition.z = @ + RoundDiv(dz * move, distance)]
                              b == applyLogicalPosition(a)
                          IN [b EXCEPT !.vrm.yaw = Atan2(dx, dz)]

syncLogicalPositionWithVrm(s) ==
  IF ~s.vrm.loaded THEN s
  ELSE applyLogicalPosition(
         [s EXCEPT !.walk.logicalPosition = [x |-> s.vrm.x, z |-> s.vrm.z]])


(***************************************************************************)
(* idleAnimations.                                                         *)
(***************************************************************************)
\* calculateIdleSwitchDelay without the overlap
calculateIdleSwitchDelayMutantNoOverlap(clipDuration) ==
  Max(IF clipDuration = 0 THEN IDLE_DEFAULT_DURATION ELSE clipDuration, 600)

calculateIdleSwitchDelay(clipDuration) ==
  LET duration == Max(IF clipDuration = 0 THEN IDLE_DEFAULT_DURATION
                      ELSE clipDuration, 600)
      safeOverlap == Min(IDLE_OVERLAP_SECONDS, Max(duration - 100, 100))
  IN Max(duration - safeOverlap, 100)

\* the two clips of LONG_IDLE_SEQUENCE
IdleFiles == <<"Idle2", "Idle2_2">>

(***************************************************************************)
(* idleLoopMenu.                                                           *)
(***************************************************************************)
\* playNextIdle up to its await: the lookup of the next file is outstanding
playNextIdle(s) ==
  IF s.idle.idleRequestInFlight \/ ~s.idle.active THEN s
  ELSE [s EXCEPT !.idle.idleRequestInFlight = TRUE,
                 !.idle.idleSequenceIndex = (@ + 1) % Len(IdleFiles),
                 !.reqs.idle = Append(@, s.idle.idleSequenceIndex)]

\* playNextIdleResume that does not look whether the avatar walks
playNextIdleResumeMutantIgnoresWalk(s, i, ok) ==
  LET file == s.reqs.idle[i]
      s1 == [s EXCEPT !.reqs.idle = SubSeq(@, 1, i - 1) \o SubSeq(@, i + 1, Len(@))]
      s2 == IF ~ok \/ ~s1.idle.active \/ ~s1.vrm.loaded
            THEN s1
            ELSE [playClip(s1, IdleFiles[file + 1], TRUE, "idle")
                    EXCEPT !.idle.idleSwitchTimer =
                             calculateIdleSwitchDelay(IDLE_DEFAULT_DURATION)]
  IN [s2 EXCEPT !.idle.idleRequestInFlight = FALSE]

\* playNextIdle after its await, for the i-th outstanding lookup
playNextIdleResume(s, i, ok) ==
  LET file == s.reqs.idle[i]
      s1 == [s EXCEPT !.reqs.idle = SubSeq(@, 1, i - 1) \o SubSeq(@, i + 1, Len(@))]
      s2 == IF ~ok \/ ~s1.idle.active \/ ~s1.vrm.loaded \/ s1.walk.moving
            THEN s1
            ELSE [playClip(s1, IdleFiles[file + 1], TRUE, "idle")
                    EXCEPT !.idle.idleSwitchTimer =
                             calculateIdleSwitchDelay(IDLE_DEFAULT_DURATION)]
  IN [s2 EXCEPT !.idle.idleRequestInFlight = FALSE]

IdleOff == [active |-> FALSE, idleSequenceIndex |-> 0, idleSwitchTimer |-> 0,
            idleRequestInFlight |-> FALSE]

activateIdleLoopMode(s) ==
  LET s1 == [s EXCEPT !.idle = [IdleOff EXCEPT !.active = TRUE]]
  IN IF ~s1.vrm.loaded THEN s1 ELSE playNextIdle(s1)

deactivateIdleLoopMode(s) ==
  [(IF s.idle.active THEN Emit(s, "idle", "deactivated") ELSE s)
     EXCEPT !.idle = IdleOff]

updateIdleLoopMode(s, delta) ==
  IF ~s.idle.active \/ ~s.vrm.loaded THEN s
  ELSE LET s1 == [s EXCEPT !.idle.idleSwitchTimer = Max(0, @ - delta)]
       IN IF s1.idle.idleSwitchTimer <= 0 /\ ~s1.idle.idleRequestInFlight
             /\ ~s1.walk.moving
          THEN playNextIdle(s1) ELSE s1

(***************************************************************************)
(* randomMenu.  rnd holds the values Math.random() yields in the step:     *)
(* the target (x, z), whether to wave, and the wave delay.                 *)
(***************************************************************************)
RandomOff == [active |-> FALSE, phase |-> "idle", waitRemaining |-> 0,
              waveTimer |-> 0, playingWave |-> FALSE,
              wavePlayedThisCycle |-> FALSE, idleResumeTimer |-> 0,
              idleSwitchTimer |-> 0, idleRequestInFlight |-> FALSE,
              pendingMove |-> FALSE, waveRequestInFlight |-> FALSE,
              hasTarget |-> FALSE, currentTarget |-> [x |-> 0, z |-> 0],
              idleSequenceIndex |-> 0]

\* startIdleLoopForRandom up to its first await; file -1: the list of idle
\* files is still being fetched and the file is chosen after it arrives
startIdleLoopForRandom(s) ==
  IF s.random.idleRequestInFlight THEN s
  ELSE IF s.reqs.idleFilesLoaded
  THEN [s EXCEPT !.random.idleRequestInFlight = TRUE,
                 !.random.idleSequenceIndex = (@ + 1) % Len(IdleFiles),
                 !.reqs.randomIdle = Append(@, s.random.idleSequenceIndex)]
  ELSE [s EXCEPT !.random.idleRequestInFlight = TRUE,
                 !.reqs.randomIdle = Append(@, 0 - 1)]

\* startIdleLoopForRandomResume that does not look whether the gesture plays
startIdleLoopForRandomResumeMutantIgnoresWave(s, i, ok) ==
  LET req == s.reqs.randomIdle[i]
      s0 == [s EXCEPT !.reqs.randomIdle =
                        SubSeq(@, 1, i - 1) \o SubSeq(@, i + 1, Len(@))]
      s1 == IF ok /\ req < 0
            THEN [s0 EXCEPT !.reqs.idleFilesLoaded = TRUE,
                            !.random.idleSequenceIndex = (@ + 1) % Len(IdleFiles)]
            ELSE s0
      file == IF req < 0 THEN s0.random.idleSequenceIndex ELSE req
      s2 == IF ~ok \/ ~s1.random.active \/ s1.random.phase # "waiting"
               \/ s1.walk.moving
            THEN s1
            ELSE [playClip(s1, IdleFiles[file + 1], TRUE, "randomIdle")
                    EXCEPT !.random.idleSwitchTimer =
                             calculateIdleSwitchDelay(IDLE_DEFAULT_DURATION)]
  IN [s2 EXCEPT !.random.idleRequestInFlight = FALSE]

startIdleLoopForRandomResume(s, i, ok) ==
  LET req == s.reqs.randomIdle[i]
      s0 == [s EXCEPT !.reqs.randomIdle =
                        SubSeq(@, 1, i - 1) \o SubSeq(@, i + 1, Len(@))]
      \* nextIdleFile() after the file list arrived
      s1 == IF ok /\ req < 0
            THEN [s0 EXCEPT !.reqs.idleFilesLoaded = TRUE,
                            !.random.idleSequenceIndex = (@ + 1) % Len(IdleFiles)]
            ELSE s0
      file == IF req < 0 THEN s0.random.idleSequenceIndex ELSE req
      s2 == IF ~ok \/ ~s1.random.active \/ s1.random.phase # "waiting"
               \/ s1.walk.moving \/ s1.random.playingWave
            THEN s1
            ELSE [playClip(s1, IdleFiles[file + 1], TRUE, "randomIdle")
                    EXCEPT !.random.idleSwitchTimer =
                             calculateIdleSwitchDelay(IDLE_DEFAULT_DURATION)]
  IN [s2 EXCEPT !.random.idleRequestInFlight = FALSE]

\* playRandomWave up to its first await
playRandomWave(s) == [s EXCEPT !.reqs.randomWave = @ + 1]

playRandomWaveResume(s, ok) ==
  LET s0 == [s EXCEPT !.reqs.randomWave = @ - 1]
      s1 == IF ~ok \/ ~s0.random.active \/ s0.random.phase # "waiting"
               \/ s0.walk.moving
            THEN s0
            ELSE playClip([s0 EXCEPT !.random.playingWave = TRUE,
                                     !.random.wavePlayedThisCycle = TRUE,
                                     !.random.idleResumeTimer = WAVE_DEFAULT_DURATION],
                          "wave", FALSE, "randomWave")
  IN [s1 EXCEPT !.random.waveRequestInFlight = FALSE]

\* beginRandomWaitPhase with a wait of one frame less
beginRandomWaitPhaseMutantShortWait(s, rnd) ==
  IF ~s.random.active THEN s
  ELSE LET s1 == [s EXCEPT !.random.phase = "waiting",
                           !.random.waitRemaining = RANDOM_WAIT_SECONDS - 500,
                           !.random.waveTimer =
                              IF rnd.wave
                              THEN Min(Max(rnd.delay, 800),
                                       Max(RANDOM_WAIT_SECONDS - 1000, 1000))
                              ELSE Infinity,
                           !.random.wavePlayedThisCycle = ~rnd.wave,
                           !.random.playingWave = FALSE,
                           !.random.waveRequestInFlight = FALSE,
                           !.random.idleResumeTimer = 0,
                           !.random.idleSwitchTimer = 0]
       IN startIdleLoopForRandom(s1)

beginRandomWaitPhase(s, rnd) ==
  IF ~s.random.active THEN s
  ELSE LET s1 == [s EXCEPT !.random.phase = "waiting",
                           !.random.waitRemaining = RANDOM_WAIT_SECONDS,
                           !.random.waveTimer =
                              IF rnd.wave
                              THEN Min(Max(rnd.delay, 800),
                                       Max(RANDOM_WAIT_SECONDS - 1000, 1000))
                              ELSE Infinity,
                           !.random.wavePlayedThisCycle = ~rnd.wave,
                           !.random.playingWave = FALSE,
                           !.random.waveRequestInFlight = FALSE,
                           !.random.idleResumeTimer = 0,
                           !.random.idleSwitchTimer = 0]
       IN startIdleLoopForRandom(s1)

RandomMoveOptions == [statusSetter |-> FALSE, arrivalMessage |-> "",
                      preserveAnimation |-> TRUE]

\* startRandomMove up to its await of beginMoveTo
startRandomMove(s, rnd) ==
  IF ~s.random.active \/ s.random.pendingMove \/ s.walk.moving THEN s
  ELSE IF ~s.vrm.loaded THEN s
  ELSE LET s1 == [s EXCEPT !.random.pendingMove = TRUE,
                           !.random.phase = "moving",
                           !.random.wavePlayedThisCycle = FALSE,
                           !.random.playingWave = FALSE,
                           !.random.waveRequestInFlight = FALSE,
                           !.random.hasTarget = TRUE,
                           !.random.currentTarget = [x |-> rnd.x, z |-> rnd.z]]
       IN beginMoveTo(s1, rnd.x, rnd.z, "random", RandomMoveOptions)

\* startRandomMove after beginMoveTo returned moveSucceeded
startRandomMoveResume(s, moveSucceeded) ==
  LET s1 == IF ~moveSucceeded /\ s.random.active
            THEN [s EXCEPT !.random.phase = "idle"] ELSE s
  IN [s1 EXCEPT !.random.pendingMove = FALSE]

activateRandomMode(s, rnd) ==
  LET s1 == [s EXCEPT !.random = [RandomOff EXCEPT !.active = TRUE]]
      s2 == IF s1.walk.moving
            THEN finishWalking(s1, "switched to random", FALSE, FALSE) ELSE s1
  IN IF s2.vrm.loaded THEN startRandomMove(s2, rnd) ELSE s2

deactivateRandomMode(s) ==
  LET s1 == [(IF s.random.active THEN Emit(s, "random", "deactivated") ELSE s)
               EXCEPT !.random = RandomOff]
  IN IF s1.walk.moving THEN finishWalking(s1, "", FALSE, FALSE) ELSE s1

updateRandomBehavior(s, delta, rnd) ==
  IF ~s.random.active THEN s
  ELSE IF s.random.phase = "moving"
  THEN IF ~s.walk.moving /\ ~s.random.pendingMove
       THEN beginRandomWaitPhase(s, rnd) ELSE s
  ELSE IF s.random.phase # "waiting" THEN s
  ELSE
  LET s1 == [s EXCEPT !.random.waitRemaining = Max(0, @ - delta)]
      s2 == IF ~s1.random.wavePlayedThisCycle
            THEN LET a == [s1 EXCEPT !.random.waveTimer =
                              IF @ = Infinity THEN Infinity ELSE @ - delta]
                 IN IF a.random.waveTimer <= 0 /\ ~a.random.waveRequestInFlight
                    THEN playRandomWave([a EXCEPT !.random.waveRequestInFlight = TRUE])
                    ELSE a
            ELSE s1
      s3 == IF s2.random.playingWave
            THEN LET a == [s2 EXCEPT !.random.idleResumeTimer = @ - delta]
                 IN IF a.random.idleResumeTimer <= 0
                    THEN startIdleLoopForRandom([a EXCEPT !.random.playingWave = FALSE])
                    ELSE a
            ELSE LET a == [s2 EXCEPT !.random.idleSwitchTimer = Max(0, @ - delta)]
                 IN IF a.random.idleSwitchTimer <= 0
                       /\ ~a.random.idleRequestInFlight
                       /\ ~a.random.waveRequestInFlight
                       /\ ~a.walk.moving
                    THEN startIdleLoopForRandom(a) ELSE a
  IN IF s3.random.waitRemaining <= 0 /\ ~s3.random.pendingMove
     THEN startRandomMove(s3, rnd) ELSE s3


(***************************************************************************)
(* lookAtPlayerMenu.  Operators that return a value yield a record         *)
(* [s |-> state afterwards, ret |-> returned value].                       *)
(***************************************************************************)
computeDesiredYawToPlayer(s) ==
  LET dx == s.viewer.x - s.vrm.x
      dz == s.viewer.z - s.vrm.z
  IN IF ~s.vrm.loaded \/ dx * dx + dz * dz <= MIN_DISTANCE_SQ
     THEN [null |-> TRUE, yaw |-> 0]
     ELSE [null |-> FALSE, yaw |-> Atan2(dx, dz)]

beginBodyTurn(s, desiredAngle, source) ==
  IF ~s.vrm.loaded
  THEN [s |-> [s EXCEPT !.look.turnState.active = FALSE], ret |-> FALSE]
  ELSE LET currentAngle == normalizeRadians(s.vrm.yaw)
           delta == normalizeRadians(desiredAngle - currentAngle)
       IN IF Abs(delta) < BODY_TURN_THRESHOLD
          THEN [s |-> [s EXCEPT !.look.turnState.active = FALSE,
                                !.look.turnState.elapsed = 0],
                ret |-> FALSE]
          ELSE [s |-> [s EXCEPT !.look.turnState =
                         [active |-> TRUE, startAngle |-> currentAngle,
                          targetAngle |-> currentAngle + delta,
                          duration |-> TurnDuration(delta, BODY_TURN_MIN_DURATION,
                                                    BODY_TURN_MAX_DURATION),
                          elapsed |-> 0, resumeSource |-> source]],
                ret |-> TRUE]

updateVrmGazeTarget(s) == [s EXCEPT !.look.gazeTargetSet = TRUE]

\* lookAtPlayer that does not look whether a body turn is running
lookAtPlayerMutantRestartsTurn(s, source) ==
  IF ~s.vrm.loaded THEN [s |-> s, ret |-> FALSE]
  ELSE LET desiredYaw == computeDesiredYawToPlayer(s)
       IN IF desiredYaw.null THEN [s |-> s, ret |-> FALSE]
          ELSE LET currentAngle == normalizeRadians(s.vrm.yaw)
                   delta == normalizeRadians(desiredYaw.yaw - currentAngle)
                   turn == IF Abs(delta) >= BODY_TURN_THRESHOLD
                           THEN beginBodyTurn(s, desiredYaw.yaw, source)
                           ELSE [s |-> s, ret |-> FALSE]
               IN IF turn.ret THEN [s |-> turn.s, ret |-> FALSE]
                  ELSE [s |-> updateVrmGazeTarget(turn.s), ret |-> TRUE]

lookAtPlayer(s, source) ==
  IF ~s.vrm.loaded THEN [s |-> s, ret |-> FALSE]
  ELSE LET desiredYaw == computeDesiredYawToPlayer(s)
       IN IF desiredYaw.null THEN [s |-> s, ret |-> FALSE]
          ELSE IF s.look.turnState.active
          THEN [s |-> [s EXCEPT !.look.turnState.resumeSource = source],
                ret |-> FALSE]
          ELSE LET currentAngle == normalizeRadians(s.vrm.yaw)
                   delta == normalizeRadians(desiredYaw.yaw - currentAngle)
                   turn == IF Abs(delta) >= BODY_TURN_THRESHOLD
                           THEN beginBodyTurn(s, desiredYaw.yaw, source)
                           ELSE [s |-> s, ret |-> FALSE]
               IN IF turn.ret THEN [s |-> turn.s, ret |-> FALSE]
                  ELSE [s |-> updateVrmGazeTarget(turn.s), ret |-> TRUE]

advanceBodyTurn(s, delta) ==
  IF ~s.look.turnState.active THEN s
  ELSE IF ~s.vrm.loaded THEN [s EXCEPT !.look.turnState.active = FALSE]
  ELSE LET elapsed == s.look.turnState.elapsed + delta
           progress == Progress(elapsed, s.look.turnState.duration)
           nextAngle == Lerp(s.look.turnState.startAngle,
                             s.look.turnState.targetAngle,
                             Smoothstep(progress))
           s1 == [s EXCEPT !.look.turnState.elapsed = elapsed,
                           !.vrm.yaw = nextAngle]
       IN IF progress >= 1000
          THEN lookAtPlayer([s1 EXCEPT !.look.turnState.active = FALSE,
                                       !.look.turnState.resumeSource = "auto"],
                            s1.look.turnState.resumeSource).s
          ELSE s1

setMenuActive(s, active) ==
  [s EXCEPT !.look.menuActive = active,
            !.look.autoLook = IF active THEN @ ELSE FALSE]

updateLookAtPlayer(s, delta) ==
  LET s1 == advanceBodyTurn(s, delta)
  IN IF ~s1.look.menuActive \/ ~s1.look.autoLook THEN s1
     ELSE lookAtPlayer(s1, "auto").s

(***************************************************************************)
(* lookDownAction: the neck-tilt target.                                   *)
(***************************************************************************)
\* the weighted bones, in the order of LOOK_DOWN_BONE_WEIGHTS
Bones == {"head", "neck"}

BoneOrder == <<"head", "neck">>

Weight(name) == IF name = "head" THEN HEAD_WEIGHT ELSE NECK_WEIGHT

NoOffsets == [b \in {} |-> 0]

\* targetAngleRad, the offsets and the bone rotations in microradians;
\* boneCache: the names in lookDownBoneCache
InitLookDown ==
  [enabled |-> FALSE, targetAngleRad |-> 0, mode |-> "manual",
   boneOffsets |-> NoOffsets, boneCache |-> {}]

\* the avatar's humanoid has both bones
getLookDownBone(s, boneName) ==
  IF boneName \in s.neck.boneCache THEN s
  ELSE IF ~s.vrm.loaded THEN s
  ELSE [s EXCEPT !.neck.boneCache = @ \cup {boneName}]

\* delta in ms, the result in thousandths
computeSmoothingAlpha(delta, speedPerSec) ==
  OneMinusExp(speedPerSec * Clamp(delta, 5, 100))

MANUAL_LOOK_DOWN_MAX_RADIANS == degToRad(MANUAL_LOOK_DOWN_MAX_DEGREES)
LOOK_DOWN_BONE_MIN_RAD == degToRad(LOOK_DOWN_BONE_MIN_DEGREES)
LOOK_DOWN_BONE_MAX_RAD == degToRad(LOOK_DOWN_BONE_MAX_DEGREES)
LOOK_DOWN_EPSILON == degToRad(LOOK_DOWN_EPSILON_DEGREES)

setTargetMutantNoEpsilon(s, angleRad, mode) ==
  LET maxRad == MANUAL_LOOK_DOWN_MAX_RADIANS
      clamped == Clamp(angleRad, 0 - maxRad, maxRad)
  IN [s EXCEPT !.neck.targetAngleRad = clamped,
               !.neck.enabled = (Abs(clamped) > 0),
               !.neck.mode = mode]

setTarget(s, angleRad, mode) ==
  LET maxRad == MANUAL_LOOK_DOWN_MAX_RADIANS
      clamped == Clamp(angleRad, 0 - maxRad, maxRad)
  IN [s EXCEPT !.neck.targetAngleRad = clamped,
               !.neck.enabled = (Abs(clamped) > LOOK_DOWN_EPSILON),
               !.neck.mode = mode]

\* one pass of the forEach of applyPose, over the bone `name`;
\* abs: Math.abs(nextOffset), 0 when the bone is missing
applyPoseToBoneMutantCompounds(s, name, targetAngleRad, smoothingFactor) ==
  LET s1 == getLookDownBone(s, name)
      offs == s1.neck.boneOffsets
      previousOffset == IF name \in DOMAIN offs THEN offs[name] ELSE 0
      desiredOffset == IF Abs(targetAngleRad) > LOOK_DOWN_EPSILON
                       THEN (targetAngleRad * Weight(name)) \div 100 ELSE 0
      nextOffset == Lerp(previousOffset, desiredOffset, smoothingFactor)
      finalRotation == Clamp(s1.bones[name] + nextOffset,
                             LOOK_DOWN_BONE_MIN_RAD, LOOK_DOWN_BONE_MAX_RAD)
      s2 == [s1 EXCEPT !.bones[name] = finalRotation]
  IN IF name \notin s1.neck.boneCache THEN [s |-> s1, abs |-> 0]
     ELSE IF Abs(nextOffset) < LOOK_DOWN_EPSILON /\ ~s.neck.enabled
     THEN [s |-> [s2 EXCEPT !.neck.boneOffsets =
                    [b \in DOMAIN offs \ {name} |-> offs[b]]],
           abs |-> Abs(nextOffset)]
     ELSE [s |-> [s2 EXCEPT !.neck.boneOffsets =
                    [b \in DOMAIN offs \cup {name} |->
                       IF b = name THEN nextOffset ELSE offs[b]]],
           abs |-> Abs(nextOffset)]

applyPoseToBone(s, name, targetAngleRad, smoothingFactor) ==
  LET s1 == getLookDownBone(s, name)
      offs == s1.neck.boneOffsets
      previousOffset == IF name \in DOMAIN offs THEN offs[name] ELSE 0
      baseRotationX == s1.bones[name] - previousOffset
      desiredOffset == IF Abs(targetAngleRad) > LOOK_DOWN_EPSILON
                       THEN (targetAngleRad * Weight(name)) \div 100 ELSE 0
      nextOffset == Lerp(previousOffset, desiredOffset, smoothingFactor)
      finalRotation == Clamp(baseRotationX + nextOffset,
                             LOOK_DOWN_BONE_MIN_RAD, LOOK_DOWN_BONE_MAX_RAD)
      s2 == [s1 EXCEPT !.bones[name] = finalRotation]
  IN IF name \notin s1.neck.boneCache THEN [s |-> s1, abs |-> 0]
     ELSE IF Abs(nextOffset) < LOOK_DOWN_EPSILON /\ ~s.neck.enabled
     THEN [s |-> [s2 EXCEPT !.neck.boneOffsets =
                    [b \in DOMAIN offs \ {name} |-> offs[b]]],
           abs |-> Abs(nextOffset)]
     ELSE [s |-> [s2 EXCEPT !.neck.boneOffsets =
                    [b \in DOMAIN offs \cup {name} |->
                       IF b = name THEN nextOffset ELSE offs[b]]],
           abs |-> Abs(nextOffset)]

applyPose(s, delta) ==
  IF ~s.vrm.loaded THEN s
  ELSE LET targetAngleRad == IF s.neck.enabled THEN s.neck.targetAngleRad ELSE 0
           smoothingFactor ==
             computeSmoothingAlpha(delta, IF s.neck.enabled
                                          THEN LOOK_DOWN_APPLY_SPEED
                                          ELSE LOOK_DOWN_RELEASE_SPEED)
           b1 == applyPoseToBone(s, BoneOrder[1], targetAngleRad, smoothingFactor)
           b2 == applyPoseToBone(b1.s, BoneOrder[2], targetAngleRad, smoothingFactor)
           maxAbsOffset == Max(b1.abs, b2.abs)
       IN IF ~s.neck.enabled /\ maxAbsOffset <= LOOK_DOWN_EPSILON
          THEN [b2.s EXCEPT !.neck.boneOffsets = NoOffsets]
          ELSE b2.s

\* a request: a number of hundredths of a degree, or a non-finite value
Num(v) == [finite |-> TRUE, value |-> v]

NonFinite == [finite |-> FALSE, value |-> 0]

\* ret: angleDeg in hundredths of a degree
applyManual(s, levelDegrees) ==
  LET safeDegrees == IF levelDegrees.finite
                     THEN Clamp(levelDegrees.value, MANUAL_LOOK_DOWN_MIN_DEGREES,
                                MANUAL_LOOK_DOWN_MAX_DEGREES)
                     ELSE 0
      s1 == setTarget(s, degToRad(safeDegrees), "manual")
  IN [s |-> s1, ret |-> radToDeg(s1.neck.targetAngleRad)]

lookDownReset(s) == [s EXCEPT !.neck = InitLookDown]

(***************************************************************************)
(* idleAction and the shared return-to-idle hook.                          *)
(***************************************************************************)
idleActionExecute(s) ==
  IF ~s.vrm.loaded THEN setStatus(s, "wait for VRM")
  ELSE setStatus(Emit(activateIdleLoopMode(deactivateRandomMode(s)),
                      "idle", "activated"),
                 "idle started")

finishActionAndReturnToIdle(s) ==
  IF s.action.currentAction # "random" THEN idleActionExecute(s) ELSE s

(***************************************************************************)
(* blinkAction (manual blink).                                             *)
(***************************************************************************)
blinkExecute(s) ==
  IF s.blink.inProgress THEN setStatus(s, "already blinking")
  ELSE IF ~s.vrm.loaded THEN setStatus(s, "wait for VRM")
  ELSE setStatus([s EXCEPT !.blink = [inProgress |-> TRUE, phase |-> "closing",
                                      elapsed |-> 0, currentValue |-> 0]],
                 "blinking")

\* currentValue in thousandths
blinkUpdate(s, delta) ==
  IF ~s.blink.inProgress THEN s
  ELSE LET elapsed == s.blink.elapsed + delta
       IN IF s.blink.phase = "closing"
          THEN LET progress == Min((elapsed * 1000) \div BLINK_CLOSE_DURATION, 1000)
               IN [s EXCEPT !.blink.currentValue = progress,
                            !.eyelid = progress,
                            !.blink.elapsed = IF progress >= 1000 THEN 0 ELSE elapsed,
                            !.blink.phase = IF progress >= 1000 THEN "closed" ELSE @]
          ELSE IF s.blink.phase = "closed"
          THEN IF elapsed >= BLINK_HOLD_DURATION
               THEN [s EXCEPT !.blink.phase = "opening", !.blink.elapsed = 0,
                              !.eyelid = 1000]
               ELSE [s EXCEPT !.blink.elapsed = elapsed, !.eyelid = 1000]
          ELSE LET progress == Min((elapsed * 1000) \div BLINK_OPEN_DURATION, 1000)
                   s1 == [s EXCEPT !.blink.currentValue = 1000 - progress,
                                   !.eyelid = 1000 - progress,
                                   !.blink.elapsed = elapsed]
               IN IF progress >= 1000
                  THEN finishActionAndReturnToIdle(
                         setStatus(Emit([s1 EXCEPT !.blink.inProgress = FALSE,
                                                   !.eyelid = 0],
                                        "complete", "blink"),
                                   "blinked"))
                  ELSE s1

(***************************************************************************)
(* autoBlinkManager.  The avatar has an expressionManager; eyelid is the   *)
(* value of its "blink" expression in thousandths, written by both blinks. *)
(***************************************************************************)
\* r: Math.random() in thousandths, 0 <= r < 1000
getRandomBlinkIntervalMutantNoMin(r) ==
  AUTO_BLINK_MIN_INTERVAL + (r * AUTO_BLINK_MAX_INTERVAL) \div 1000

getRandomBlinkInterval(r) ==
  AUTO_BLINK_MIN_INTERVAL
    + (r * (AUTO_BLINK_MAX_INTERVAL - AUTO_BLINK_MIN_INTERVAL)) \div 1000

startAutoBlink(s) ==
  IF ~s.vrm.loaded THEN s
  ELSE Emit([s EXCEPT !.auto.inProgress = TRUE, !.auto.phase = "closing",
                      !.auto.elapsed = 0, !.auto.currentValue = 0],
            "autoBlink", "started")

updateBlinkAnimation(s, delta, r) ==
  IF ~s.vrm.loaded THEN s
  ELSE LET elapsed == s.auto.elapsed + delta
       IN IF s.auto.phase = "closing"
          THEN LET progress == Min((elapsed * 1000) \div BLINK_CLOSE_DURATION, 1000)
               IN [s EXCEPT !.auto.currentValue = progress,
                            !.eyelid = progress,
                            !.auto.elapsed = IF progress >= 1000 THEN 0 ELSE elapsed,
                            !.auto.phase = IF progress >= 1000 THEN "closed" ELSE @]
          ELSE IF s.auto.phase = "closed"
          THEN IF elapsed >= BLINK_HOLD_DURATION
               THEN [s EXCEPT !.auto.phase = "opening", !.auto.elapsed = 0,
                              !.eyelid = 1000]
               ELSE [s EXCEPT !.auto.elapsed = elapsed, !.eyelid = 1000]
          ELSE LET progress == Min((elapsed * 1000) \div BLINK_OPEN_DURATION, 1000)
                   s1 == [s EXCEPT !.auto.currentValue = 1000 - progress,
                                   !.eyelid = 1000 - progress,
                                   !.auto.elapsed = elapsed]
               IN IF progress >= 1000
                  THEN Emit([s1 EXCEPT !.eyelid = 0,
                                       !.auto.inProgress = FALSE,
                                       !.auto.nextBlinkTime = getRandomBlinkInterval(r)],
                            "autoBlink", "completed")
                  ELSE s1

autoBlinkUpdate(s, delta, r) ==
  IF ~s.auto.enabled THEN s
  ELSE IF s.auto.inProgress THEN updateBlinkAnimation(s, delta, r)
  ELSE LET s1 == [s EXCEPT !.auto.nextBlinkTime = @ - delta]
       IN IF s1.auto.nextBlinkTime <= 0 THEN startAutoBlink(s1) ELSE s1

autoBlinkEnable(s, r) ==
  IF ~s.auto.enabled
  THEN [s EXCEPT !.auto.enabled = TRUE,
                 !.auto.nextBlinkTime = getRandomBlinkInterval(r)]
  ELSE s

autoBlinkDisable(s) == [s EXCEPT !.auto.enabled = FALSE]

(***************************************************************************)
(* waveAction (manual wave).                                               *)
(***************************************************************************)
\* execute up to its first await
waveExecute(s) ==
  IF s.wave.inProgress THEN setStatus(s, "already waving")
  ELSE IF ~s.vrm.loaded THEN setStatus(s, "wait for VRM")
  ELSE [setStatus(s, "preparing wave") EXCEPT !.reqs.wave = @ + 1]

\* execute after the clip lookup
waveExecuteResume(s, ok) ==
  LET s0 == [s EXCEPT !.reqs.wave = @ - 1]
  IN IF ok
     THEN setStatus(playClip([s0 EXCEPT !.wave.inProgress = TRUE,
                                        !.wave.resumeTimer = WAVE_DEFAULT_DURATION],
                             "wave", FALSE, "wave"),
                    "waving")
     ELSE setStatus([s0 EXCEPT !.wave.inProgress = FALSE], "wave failed")

waveUpdate(s, delta) ==
  IF ~s.wave.inProgress THEN s
  ELSE LET s1 == [s EXCEPT !.wave.resumeTimer = @ - delta]
       IN IF s1.wave.resumeTimer <= 0
          THEN finishActionAndReturnToIdle(
                 Emit([s1 EXCEPT !.wave.inProgress = FALSE], "complete", "wave"))
          ELSE s1


(***************************************************************************)
(* comeHereAction.                                                         *)
(***************************************************************************)
ComeHereMoveOptions == [statusSetter |-> TRUE, arrivalMessage |-> "arrived",
                        preserveAnimation |-> FALSE]

\* the point APPROACH_MARGIN short of the viewer, at least APPROACH_MIN away
ComeHereTarget(s) ==
  LET dx == s.viewer.x - s.vrm.x
      dz == s.viewer.z - s.vrm.z
      distance == Sqrt(dx * dx + dz * dz)
      approachDistance == Max(distance - APPROACH_MARGIN, APPROACH_MIN)
  IN [x |-> s.vrm.x + RoundDiv(dx * approachDistance, distance),
      z |-> s.vrm.z + RoundDiv(dz * approachDistance, distance)]

\* execute up to its await of beginMoveTo
comeHereExecute(s) ==
  IF s.ch.inProgress THEN setStatus(s, "already coming")
  ELSE LET s1 == IF s.walk.moving THEN finishWalking(s, "", FALSE, FALSE) ELSE s
       IN IF ~s1.vrm.loaded THEN setStatus(s1, "wait for VRM")
          ELSE LET s2 == deactivateIdleLoopMode(deactivateRandomMode(s1))
                   target == ComeHereTarget(s2)
                   s3 == setStatus([s2 EXCEPT !.ch.inProgress = TRUE], "coming")
               IN beginMoveTo(syncLogicalPositionWithVrm(s3), target.x, target.z,
                              "comeHere", ComeHereMoveOptions)

\* comeHereExecuteResume that leaves inProgress set when the move failed
comeHereExecuteResumeMutantKeepsFlag(s, moveSucceeded) ==
  IF ~moveSucceeded
  THEN setStatus(s, "could not come")
  ELSE s

\* execute after beginMoveTo returned moveSucceeded
comeHereExecuteResume(s, moveSucceeded) ==
  IF ~moveSucceeded
  THEN setStatus([s EXCEPT !.ch.inProgress = FALSE], "could not come")
  ELSE s

comeHereUpdate(s) ==
  IF s.ch.inProgress /\ ~s.walk.moving /\ ~s.walk.loading
  THEN [s |-> [s EXCEPT !.ch.inProgress = FALSE], ret |-> TRUE]
  ELSE [s |-> s, ret |-> FALSE]

(***************************************************************************)
(* comeHereFrontAction.                                                    *)
(***************************************************************************)
ComeHereFrontMoveOptions == [statusSetter |-> TRUE,
                             arrivalMessage |-> "arrived in front",
                             preserveAnimation |-> TRUE]

\* the point FRONT_DISTANCE ahead of the viewer along the camera direction
ComeHereFrontTarget(s) ==
  [x |-> s.viewer.x + s.viewer.dirX * FRONT_DISTANCE,
   z |-> s.viewer.z + s.viewer.dirZ * FRONT_DISTANCE]

comeHereFrontExecute(s) ==
  IF s.chf.inProgress THEN setStatus(s, "already coming")
  ELSE LET s1 == IF s.walk.moving THEN finishWalking(s, "", FALSE, FALSE) ELSE s
       IN IF ~s1.vrm.loaded THEN setStatus(s1, "wait for VRM")
          ELSE LET s2 == deactivateRandomMode(s1)
                   target == ComeHereFrontTarget(s2)
                   distanceToFrontTarget == Hypot(target.x - s2.vrm.x,
                                                  target.z - s2.vrm.z)
               IN IF distanceToFrontTarget <= COME_HERE_FRONT_SKIP_THRESHOLD
                  THEN setStatus(s2, "already in front")
                  ELSE LET s3 == deactivateIdleLoopMode(s2)
                           s4 == setStatus([s3 EXCEPT !.chf.inProgress = TRUE],
                                           "coming to the front")
                       IN beginMoveTo(syncLogicalPositionWithVrm(s4),
                                      target.x, target.z, "comeHereFront",
                                      ComeHereFrontMoveOptions)

comeHereFrontExecuteResume(s, moveSucceeded) ==
  IF ~moveSucceeded
  THEN setStatus([s EXCEPT !.chf.inProgress = FALSE], "could not come to the front")
  ELSE s

\* comeHereFrontUpdate whose final turn keeps the heading of the walk
comeHereFrontUpdateMutantNoTurn(s, delta) ==
  LET \* the walk has ended: start the turn towards the viewer
      s1 == IF s.chf.inProgress /\ ~s.walk.moving /\ ~s.walk.loading
            THEN LET a == Emit([s EXCEPT !.chf.inProgress = FALSE],
                                "walkEnded", "comeHereFront")
                 IN IF a.vrm.loaded
                    THEN setStatus(
                           [a EXCEPT !.chf.turnToPlayerState =
                              [active |-> TRUE,
                               startAngle |-> normalizeRadians(a.vrm.yaw),
                               targetAngle |-> normalizeRadians(a.vrm.yaw),
                               duration |-> TURN_TO_PLAYER_DURATION,
                               elapsed |-> 0]],
                           "turning to player")
                    ELSE a
            ELSE s
  IN IF s.chf.inProgress /\ ~s.walk.moving /\ ~s.walk.loading /\ ~s.vrm.loaded
     THEN [s |-> s1, ret |-> TRUE]
     ELSE IF ~s1.chf.turnToPlayerState.active THEN [s |-> s1, ret |-> FALSE]
     ELSE IF ~s1.vrm.loaded
     THEN [s |-> [s1 EXCEPT !.chf.turnToPlayerState.active = FALSE], ret |-> TRUE]
     ELSE LET elapsed == s1.chf.turnToPlayerState.elapsed + delta
              progress == Progress(elapsed, s1.chf.turnToPlayerState.duration)
              nextAngle == Lerp(s1.chf.turnToPlayerState.startAngle,
                                s1.chf.turnToPlayerState.targetAngle,
                                Smoothstep(progress))
              s2 == [s1 EXCEPT !.chf.turnToPlayerState.elapsed = elapsed,
                               !.vrm.yaw = nextAngle]
          IN IF progress >= 1000
             THEN LET a == setStatus([s2 EXCEPT !.chf.turnToPlayerState.active = FALSE],
                                     "turned to player")
                      b == applyManual(a, Num(IF a.viewer.low THEN LOW_VIEWER_NECK_DEGREES ELSE 0)).s
                  IN [s |-> lookAtPlayer(b, "manual").s, ret |-> TRUE]
             ELSE [s |-> s2, ret |-> FALSE]

comeHereFrontUpdate(s, delta) ==
  LET \* the walk has ended: start the turn towards the viewer
      s1 == IF s.chf.inProgress /\ ~s.walk.moving /\ ~s.walk.loading
            THEN LET a == Emit([s EXCEPT !.chf.inProgress = FALSE],
                                "walkEnded", "comeHereFront")
                 IN IF a.vrm.loaded
                    THEN setStatus(
                           [a EXCEPT !.chf.turnToPlayerState =
                              [active |-> TRUE,
                               startAngle |-> normalizeRadians(a.vrm.yaw),
                               targetAngle |-> normalizeRadians(
                                  Atan2(a.viewer.x - a.vrm.x, a.viewer.z - a.vrm.z)),
                               duration |-> TURN_TO_PLAYER_DURATION,
                               elapsed |-> 0]],
                           "turning to player")
                    ELSE a
            ELSE s
  IN IF s.chf.inProgress /\ ~s.walk.moving /\ ~s.walk.loading /\ ~s.vrm.loaded
     THEN [s |-> s1, ret |-> TRUE]
     ELSE IF ~s1.chf.turnToPlayerState.active THEN [s |-> s1, ret |-> FALSE]
     ELSE IF ~s1.vrm.loaded
     THEN [s |-> [s1 EXCEPT !.chf.turnToPlayerState.active = FALSE], ret |-> TRUE]
     ELSE LET elapsed == s1.chf.turnToPlayerState.elapsed + delta
              progress == Progress(elapsed, s1.chf.turnToPlayerState.duration)
              nextAngle == Lerp(s1.chf.turnToPlayerState.startAngle,
                                s1.chf.turnToPlayerState.targetAngle,
                                Smoothstep(progress))
              s2 == [s1 EXCEPT !.chf.turnToPlayerState.elapsed = elapsed,
                               !.vrm.yaw = nextAngle]
          IN IF progress >= 1000
             THEN LET a == setStatus([s2 EXCEPT !.chf.turnToPlayerState.active = FALSE],
                                     "turned to player")
                      b == applyManual(a, Num(IF a.viewer.low THEN LOW_VIEWER_NECK_DEGREES ELSE 0)).s
                  IN [s |-> lookAtPlayer(b, "manual").s, ret |-> TRUE]
             ELSE [s |-> s2, ret |-> FALSE]

(***************************************************************************)
(* actionMenu.                                                             *)
(***************************************************************************)
executeRandomActionMutantKeepsIdle(s, rnd) ==
  IF ~s.vrm.loaded THEN setStatus(s, "wait for VRM")
  ELSE setStatus(activateRandomMode(setMenuActive(s, FALSE), rnd),
                 "random started")

executeRandomAction(s, rnd) ==
  IF ~s.vrm.loaded THEN setStatus(s, "wait for VRM")
  ELSE setStatus(activateRandomMode(
                   setMenuActive(deactivateIdleLoopMode(s), FALSE), rnd),
                 "random started")

\* hasButton: whether the page has an element with id lookAtPlayerButton;
\* its click handler is not part of these controllers
executeLookAtPlayerAction(s, hasButton) ==
  IF ~s.vrm.loaded THEN setStatus(s, "wait for VRM")
  ELSE LET s1 == setMenuActive(
                   deactivateIdleLoopMode(deactivateRandomMode(s)), TRUE)
       IN IF hasButton THEN [s1 EXCEPT !.action.lookAtPlayerInProgress = TRUE]
          ELSE setStatus(s1, "cannot look at player")

executeLookAtPlayerWithNeckAction(s) ==
  IF ~s.vrm.loaded THEN setStatus(s, "wait for VRM")
  ELSE LET s1 == deactivateIdleLoopMode(deactivateRandomMode(s))
           s2 == applyManual(s1, Num(IF s1.viewer.low
                                     THEN LOW_VIEWER_NECK_DEGREES ELSE 0)).s
           s3 == [setMenuActive(s2, TRUE) EXCEPT !.action.lookAtPlayerInProgress = TRUE]
           look == lookAtPlayer(s3, "manual")
       IN setStatus(look.s, IF look.ret THEN "looking at player"
                            ELSE "could not look at player")

executeMoveNeckAction(s, levelDegrees) ==
  IF ~s.vrm.loaded THEN setStatus(s, "wait for VRM")
  ELSE LET s1 == setMenuActive(
                   deactivateIdleLoopMode(deactivateRandomMode(s)), FALSE)
           s2 == setStatus(applyManual(s1, Num(levelDegrees)).s, "neck moved")
       IN finishActionAndReturnToIdle(Emit(s2, "complete", "moveNeck"))

\* inp: the values read from the page, [hasButton, levelDegrees]
executeAction(s, selectedAction, rnd, inp) ==
  IF selectedAction = "" THEN setStatus(s, "select an action")
  ELSE LET s1 == [s EXCEPT !.action.currentAction = selectedAction]
       IN CASE selectedAction = "random" -> executeRandomAction(s1, rnd)
            [] selectedAction = "comeHere" -> comeHereExecute(s1)
            [] selectedAction = "comeHereFront" -> comeHereFrontExecute(s1)
            [] selectedAction = "idle" -> idleActionExecute(s1)
            [] selectedAction = "lookAtPlayer" -> executeLookAtPlayerAction(s1, inp.hasButton)
            [] selectedAction = "lookAtPlayerWithNeck" -> executeLookAtPlayerWithNeckAction(s1)
            [] selectedAction = "wave" -> waveExecute(s1)
            [] selectedAction = "moveNeck" -> executeMoveNeckAction(s1, inp.levelDegrees)
            [] selectedAction = "blink" -> blinkExecute(s1)
            [] OTHER -> setStatus(s1, "unknown action")

updateActionAutoBlinkMutantAlways(s, delta, r) == autoBlinkUpdate(s, delta, r)

\* the end of updateAction: the automatic blink is updated only while no
\* manual blink is in progress
updateActionAutoBlink(s, delta, r) ==
  IF ~s.blink.inProgress THEN autoBlinkUpdate(s, delta, r) ELSE s

\* updateAction up to the completion checks of the running actions
updateActionCompletions(s, delta) ==
  LET s1 == waveUpdate(blinkUpdate(s, delta), delta)
      ch == comeHereUpdate(s1)
      s2 == IF ch.ret
            THEN finishActionAndReturnToIdle(Emit(ch.s, "complete", "comeHere"))
            ELSE ch.s
      chf == comeHereFrontUpdate(s2, delta)
      s3 == IF chf.ret
            THEN finishActionAndReturnToIdle(Emit(chf.s, "complete", "comeHereFront"))
            ELSE chf.s
  IN IF s3.action.lookAtPlayerInProgress /\ ~s3.look.turnState.active
     THEN finishActionAndReturnToIdle(
            Emit([s3 EXCEPT !.action.lookAtPlayerInProgress = FALSE],
                 "complete", "lookAtPlayer"))
     ELSE s3

\* r: the Math.random() drawn if an automatic blink completes
updateAction(s, delta, r) ==
  updateActionAutoBlink(applyPose(updateActionCompletions(s, delta), delta),
                        delta, r)

\* vrmManager.update: the mixer writes the pose of the playing clip to the
\* bones it has tracks for; a filtered clip has no track for the head
vrmManagerUpdate(s) ==
  LET written == IF ~s.vrm.loaded \/ s.playback.currentClipLabel = "" THEN {}
                 ELSE IF s.playback.filtered THEN Bones \ {"head"}
                 ELSE Bones
  IN [s EXCEPT !.bones = [b \in Bones |->
                            IF b \in written THEN s.clipPose ELSE @[b]]]

handleVrmReadyMutantNoReset(s, rnd) == executeRandomAction(s, rnd)

handleVrmReady(s, rnd) == executeRandomAction(lookDownReset(s), rnd)


(***************************************************************************)
(* Steps.  A step runs one handler (or one continuation after an await)    *)
(* to completion and then the microtasks it queued.                        *)
(***************************************************************************)
\* the caller's code after `await walkMenu.beginMoveTo(...)`
Continue(s, m) ==
  LET s1 == Emit(s, "beginMoveTo", IF m.ok THEN "returned true" ELSE "returned false")
  IN CASE m.caller = "random" -> startRandomMoveResume(s1, m.ok)
       [] m.caller = "comeHere" -> comeHereExecuteResume(s1, m.ok)
       [] m.caller = "comeHereFront" -> comeHereFrontExecuteResume(s1, m.ok)
       [] OTHER -> s1

RECURSIVE Drain(_)
Drain(s) ==
  IF s.micro = <<>> THEN s
  ELSE Drain(Continue([s EXCEPT !.micro = Tail(@)], Head(s.micro)))

CeilDiv(a, b) == (a + b - 1) \div b

Callers == {"random", "comeHere", "comeHereFront", "api"}

\* history of the walk requests since the avatar last stood still with no
\* request pending: the caller whose request started the current walk, the
\* caller of the latest beginMoveTo, and whether finishWalking was called
\* while the pending beginMoveTo was loading
ObsNext(pre, t, kind) ==
  LET o1 == IF \E c \in Callers : <<"moveRequest", c>> \in t.ev
            THEN [obs EXCEPT !.latest =
                     CHOOSE c \in Callers : <<"moveRequest", c>> \in t.ev]
            ELSE obs
      o2 == IF t.walkReq.caller # "none" /\ pre.walkReq.caller = "none"
            THEN [o1 EXCEPT !.finishedWhileLoading = FALSE] ELSE o1
      o3 == IF kind = "finishWalking" /\ pre.walk.loading
            THEN [o2 EXCEPT !.finishedWhileLoading = TRUE] ELSE o2
      o4 == IF <<"walk", "started">> \in t.ev
            THEN [o3 EXCEPT !.owner = pre.walkReq.caller] ELSE o3
  IN IF ~t.walk.moving /\ ~t.walk.loading
     THEN [owner |-> "none", latest |-> "none", finishedWhileLoading |-> FALSE]
     ELSE o4

\* stopwatch of the current walk: the time ticked since beginMoveTo
\* returned true, the walk's path time (turn duration + distance / speed),
\* the ticks taken after the path time had elapsed, whether the walk was
\* cancelled
ClockNext(pre, t, kind, delta) ==
  IF <<"walk", "started">> \in t.ev
  THEN [started |-> TRUE, cancelled |-> FALSE, elapsed |-> 0, overTicks |-> 0,
        budget |-> (IF t.walk.turnState.active
                    THEN t.walk.turnState.duration ELSE 0)
                   + CeilDiv(Hypot(t.walk.target.x - t.walk.logicalPosition.x,
                                   t.walk.target.z - t.walk.logicalPosition.z)
                             * 1000, WALK_SPEED)]
  ELSE IF pre.walk.moving /\ ~t.walk.moving /\ <<"walk", "arrived">> \notin t.ev
  THEN [clock EXCEPT !.cancelled = TRUE]
  ELSE IF kind = "tick" /\ clock.started /\ ~clock.cancelled /\ clock.overTicks < 1
  THEN [clock EXCEPT !.elapsed = @ + delta,
                     !.overTicks = IF clock.elapsed >= clock.budget THEN @ + 1 ELSE @]
  ELSE clock

\* no more than n lookups of one kind are outstanding
WithinPending(t, n) ==
  /\ Len(t.reqs.idle) <= n
  /\ Len(t.reqs.randomIdle) <= n
  /\ t.reqs.randomWave <= n
  /\ t.reqs.wave <= n

WithinBounds(t) == WithinPending(t, MaxPending)

\* the step ends in state t; timed: whether the step runs the stopwatch
CommitWithin(t0, kind, delta, timed, maxPending) ==
  LET t == Drain(t0)
  IN /\ WithinPending(t, maxPending)
     /\ vrm' = t.vrm
     /\ viewer' = t.viewer
     /\ playback' = t.playback
     /\ walkState' = t.walk
     /\ walkReq' = t.walkReq
     /\ randomState' = t.random
     /\ idleState' = t.idle
     /\ lookAtState' = t.look
     /\ actionState' = t.action
     /\ comeHereState' = t.ch
     /\ comeHereFrontState' = t.chf
     /\ waveState' = t.wave
     /\ blinkState' = t.blink
     /\ lookDownState' = t.neck
     /\ reqs' = t.reqs
     /\ loads' = t.loads
     /\ cmds' = t.cmds
     /\ ticks' = t.ticks
     /\ ev' = t.ev
     /\ obs' = ObsNext(S, t, kind)
     /\ clock' = IF timed THEN ClockNext(S, t, kind, delta) ELSE clock
     /\ idleClipDuration' = idleClipDuration
     /\ autoBlinkState' = t.auto
     /\ blinkValue' = t.eyelid
     /\ sinceAutoBlink' = t.since
     /\ boneRotationX' = t.bones
     /\ clipPoseX' = t.clipPose
     /\ neckResult' = t.neckResult
     /\ idleStale' = t.stale
     /\ waitElapsed' = t.wait

Commit(t0, kind, delta, timed) == CommitWithin(t0, kind, delta, timed, MaxPending)


(***************************************************************************)
(* Inputs.                                                                 *)
(***************************************************************************)
\* RANDOM_RANGE.min <= c <= RANDOM_RANGE.max
InRange(c) == c >= 0 - RANDOM_RANGE_MAX /\ c <= RANDOM_RANGE_MAX

\* the values of Math.random() used by randomMenu in one step: a target at
\* the avatar's start and one behind it
Rnds == [x : {0}, z : {c \in {0, 0 - 1800} : InRange(c)}, wave : BOOLEAN,
         delay : {d \in {RANDOM_WAVE_DELAY_MIN} : d <= RANDOM_WAVE_DELAY_MAX}]

NoRnd == [x |-> 0, z |-> 0, wave |-> FALSE, delay |-> RANDOM_WAVE_DELAY_MIN]

\* the viewer's head: position, camera direction, and whether it is below 1 m
Viewer1 == [x |-> 300, z |-> 0 - 300, dirX |-> 0, dirZ |-> 1, low |-> FALSE]

Viewer2 == [x |-> 0, z |-> 2400, dirX |-> 0, dirZ |-> 0 - 1, low |-> TRUE]

Viewers == {Viewer1, Viewer2}

Actions == {"random", "comeHere", "comeHereFront", "idle", "lookAtPlayer",
            "lookAtPlayerWithNeck", "wave", "moveNeck", "blink"}

\* the page: with or without #lookAtPlayerButton, the value of #neckAngleInput
PageInputs == [hasButton : BOOLEAN, levelDegrees : {6000}]

NoInput == [hasButton |-> TRUE, levelDegrees |-> 0]

\* Math.random() in thousandths, as drawn by the autoBlinkManager
BlinkRandoms == {0, 999}

\* it is drawn only when an automatic blink completes
BlinkRandomsOf(st) == IF st.inProgress THEN BlinkRandoms ELSE {0}

\* the inputs an action reads: Math.random() only in random mode, the page
\* only in the look-at and neck actions
RndsOf(a) == IF a = "random" THEN Rnds ELSE {NoRnd}

InputsOf(a) == IF a \in {"lookAtPlayer", "moveNeck"} THEN PageInputs ELSE {NoInput}

(***************************************************************************)
(* Initial state: the controllers as constructed, no avatar loaded yet.    *)
(***************************************************************************)
InitWalkState ==
  [loading |-> FALSE, moving |-> FALSE, target |-> [x |-> 0, z |-> 0],
   logicalPosition |-> [x |-> 0, z |-> 0], turnState |-> NoTurn,
   statusSetter |-> FALSE, arrivalMessage |-> "",
   preserveAnimationOnFinish |-> FALSE]

InitObs == [owner |-> "none", latest |-> "none", finishedWhileLoading |-> FALSE]

InitClock == [started |-> FALSE, cancelled |-> FALSE, elapsed |-> 0,
              budget |-> 0, overTicks |-> 0]

\* the last call of applyManual through actionMenu's applyManualLookDown:
\* its request and the angle it returned
NoNeckResult == [called |-> FALSE, request |-> Num(0), angleDeg |-> 0]

InitAutoBlink ==
  [enabled |-> TRUE, nextBlinkTime |-> AUTO_BLINK_FIRST, inProgress |-> FALSE,
   phase |-> "closing", elapsed |-> 0, currentValue |-> 0]

InitControllers ==
  /\ playback = [currentClipLabel |-> "", filtered |-> FALSE, owner |-> "none"]
  /\ walkReq = NoWalkReq
  /\ randomState = RandomOff
  /\ idleState = IdleOff
  /\ lookAtState = [menuActive |-> FALSE, autoLook |-> FALSE,
                    gazeTargetSet |-> FALSE,
                    turnState |-> [active |-> FALSE, startAngle |-> 0,
                                   targetAngle |-> 0, duration |-> 0,
                                   elapsed |-> 0, resumeSource |-> "auto"]]
  /\ actionState = [currentAction |-> "", lookAtPlayerInProgress |-> FALSE]
  /\ comeHereState = [inProgress |-> FALSE]
  /\ comeHereFrontState = [inProgress |-> FALSE,
                           turnToPlayerState |-> [active |-> FALSE,
                              startAngle |-> 0, targetAngle |-> 0,
                              duration |-> TURN_TO_PLAYER_DURATION, elapsed |-> 0]]
  /\ waveState = [inProgress |-> FALSE, resumeTimer |-> 0]
  /\ blinkState = [inProgress |-> FALSE, phase |-> "closing", elapsed |-> 0,
                   currentValue |-> 0]
  /\ lookDownState = InitLookDown
  /\ blinkValue = 0
  /\ sinceAutoBlink = 0
  /\ reqs = [idle |-> <<>>, randomIdle |-> <<>>, randomWave |-> 0, wave |-> 0,
             idleFilesLoaded |-> FALSE]
  /\ ev = {}
  /\ obs = InitObs
  /\ clock = InitClock
  /\ idleStale = 0
  /\ waitElapsed = 0

Init ==
  /\ vrm = [loaded |-> FALSE, x |-> 0, z |-> 0, yaw |-> 0]
  /\ viewer = Viewer1
  /\ loads = 0
  /\ cmds = 0
  /\ ticks = 0
  /\ walkState = InitWalkState
  /\ InitControllers
  /\ neckResult = NoNeckResult
  /\ autoBlinkState = InitAutoBlink
  /\ boneRotationX = [b \in Bones |-> 0]
  /\ clipPoseX = 0
  /\ idleClipDuration = IDLE_DEFAULT_DURATION

(***************************************************************************)
(* Steps of the application.                                               *)
(***************************************************************************)
\* main.js loadVrmModel after vrmManager.load resolved: the new avatar
\* stands at the origin with yaw 0 and the mixer is new
LoadVrm(rnd) ==
  /\ loads < MaxLoads
  /\ LET s1 == [S EXCEPT !.vrm = [loaded |-> TRUE, x |-> 0, z |-> 0, yaw |-> 0],
                         !.playback = [currentClipLabel |-> "", filtered |-> FALSE,
                                       owner |-> "none"],
                         !.look.gazeTargetSet = FALSE,
                         !.bones = [b \in Bones |-> 0],
                         !.loads = @ + 1]
     IN Commit(handleVrmReady(syncLogicalPositionWithVrm(s1), rnd), "load", 0, FALSE)

\* a click on the action button (or the VR overlay's action button)
ExecuteAction(a, rnd, inp) ==
  /\ cmds < MaxCommands
  /\ Commit(executeAction([S EXCEPT !.cmds = @ + 1], a, rnd, inp), "action", 0, FALSE)

\* chatMenu's microphone button
ExecuteComeHereFrontAction ==
  /\ cmds < MaxCommands
  /\ Commit(comeHereFrontExecute([S EXCEPT !.cmds = @ + 1]), "action", 0, FALSE)

\* one frame of the animation loop; Math.random() is drawn only by wandering
Tick(delta) ==
  /\ ticks < MaxTicks
  /\ \E rnd \in RndsOf(IF randomState.active THEN "random" ELSE ""),
        r \in BlinkRandomsOf(autoBlinkState) :
        LET s0 == vrmManagerUpdate([S EXCEPT !.ticks = @ + 1])
            s1 == updateWalk(s0, delta)
            s2 == updateRandomBehavior(s1, delta, rnd)
            s3 == updateIdleLoopMode(s2, delta)
            s4 == updateLookAtPlayer(s3, delta)
            s5 == updateAction(s4, delta, r)
        IN Commit(Emit(s5, "tick", "frame"), "tick", delta, FALSE)

\* the walk clip lookup of the pending beginMoveTo settles
WalkClipResolved(ok) ==
  /\ walkReq.caller # "none"
  /\ Commit(beginMoveToResume(S, ok), "resolve", 0, FALSE)

IdleClipResolved(i, ok) ==
  /\ i \in 1..Len(reqs.idle)
  /\ Commit(playNextIdleResume(S, i, ok), "resolve", 0, FALSE)

RandomIdleClipResolved(i, ok) ==
  /\ i \in 1..Len(reqs.randomIdle)
  /\ Commit(startIdleLoopForRandomResume(S, i, ok), "resolve", 0, FALSE)

RandomWaveClipResolved(ok) ==
  /\ reqs.randomWave > 0
  /\ Commit(playRandomWaveResume(S, ok), "resolve", 0, FALSE)

WaveClipResolved(ok) ==
  /\ reqs.wave > 0
  /\ Commit(waveExecuteResume(S, ok), "resolve", 0, FALSE)

\* the viewer moves the camera
MoveViewer(v) ==
  /\ v # viewer
  /\ cmds < MaxCommands
  /\ Commit([S EXCEPT !.viewer = v, !.cmds = @ + 1], "viewer", 0, FALSE)

Next ==
  \/ \E rnd \in Rnds : LoadVrm(rnd)
  \/ \E a \in Actions : \E rnd \in RndsOf(a), inp \in InputsOf(a) :
        ExecuteAction(a, rnd, inp)
  \/ ExecuteComeHereFrontAction
  \/ \E delta \in Deltas : Tick(delta)
  \/ \E ok \in BOOLEAN : WalkClipResolved(ok)
  \/ \E i \in 1..MaxPending, ok \in BOOLEAN : IdleClipResolved(i, ok)
  \/ \E i \in 1..MaxPending, ok \in BOOLEAN : RandomIdleClipResolved(i, ok)
  \/ \E ok \in BOOLEAN : RandomWaveClipResolved(ok)
  \/ \E ok \in BOOLEAN : WaveClipResolved(ok)
  \/ \E v \in Viewers : MoveViewer(v)

Spec == Init /\ [][Next]_vars

(***************************************************************************)
(* The locomotion controller alone, driven through its public interface    *)
(* (beginMoveTo, finishWalking, updateWalk) from any start position and    *)
(* heading.                                                                *)
(***************************************************************************)
StartPositions == {[x |-> 0, z |-> 0], [x |-> 1000, z |-> 0 - 2000]}

StartHeadings == {0, 90, 0 - 180}

\* targets in the wandering range: within the stop distance of a start,
\* ahead, behind, diagonal, and the corners of the range
WalkTargets ==
  {t \in {[x |-> 0, z |-> 10], [x |-> 900, z |-> 0],
          [x |-> 0, z |-> 0 - 1350], [x |-> 1000, z |-> 1000],
          [x |-> 3000, z |-> 3000], [x |-> 0 - 3000, z |-> 0 - 3000]} :
     InRange(t.x) /\ InRange(t.z)}

InitWalk ==
  /\ \E p \in StartPositions, h \in StartHeadings :
        /\ vrm = [loaded |-> TRUE, x |-> p.x, z |-> p.z, yaw |-> h]
        /\ walkState = [InitWalkState EXCEPT !.logicalPosition = p]
  /\ viewer = Viewer1
  /\ loads = 0
  /\ cmds = 0
  /\ ticks = 0
  /\ InitControllers
  /\ neckResult = NoNeckResult
  /\ autoBlinkState = InitAutoBlink
  /\ boneRotationX = [b \in Bones |-> 0]
  /\ clipPoseX = 0
  /\ idleClipDuration = IDLE_DEFAULT_DURATION

ApiMoveOptions(preserve) == [statusSetter |-> TRUE, arrivalMessage |-> "arrived",
                             preserveAnimation |-> preserve]

ApiBeginMoveTo(target, preserve) ==
  /\ cmds < MaxCommands
  /\ Commit(beginMoveTo([S EXCEPT !.cmds = @ + 1], target.x, target.z, "api",
                        ApiMoveOptions(preserve)),
            "beginMoveTo", 0, TRUE)

ApiClipResolved(ok) ==
  /\ walkReq.caller # "none"
  /\ Commit(beginMoveToResume(S, ok), "resolve", 0, TRUE)

ApiFinishWalking(preserve) ==
  /\ cmds < MaxCommands
  /\ Commit(finishWalking([S EXCEPT !.cmds = @ + 1], "stopped", preserve, TRUE),
            "finishWalking", 0, TRUE)

ApiUpdateWalk(delta) ==
  /\ delta \in Deltas
  /\ Commit(Emit(updateWalk(S, delta), "tick", "frame"), "tick", delta, TRUE)

NextWalk ==
  \/ \E target \in WalkTargets, preserve \in BOOLEAN : ApiBeginMoveTo(target, preserve)
  \/ \E ok \in BOOLEAN : ApiClipResolved(ok)
  \/ \E preserve \in BOOLEAN : ApiFinishWalking(preserve)
  \/ \E delta \in Deltas : ApiUpdateWalk(delta)

SpecWalk == InitWalk /\ [][NextWalk]_vars

(***************************************************************************)
(* The come-here-front action from the action menu, with a viewer who      *)
(* does not move: the avatar stands at any start position and heading, no  *)
(* action running.  The animation loop keeps producing frames and every    *)
(* clip lookup settles.  Automatic blinking has been switched off through  *)
(* the autoBlinkManager that actionMenu exposes, so that the frames carry  *)
(* no blink countdown: the blink writes the eyelid only, which no          *)
(* controller reads.                                                       *)
(***************************************************************************)
InitFront ==
  /\ \E p \in StartPositions, h \in StartHeadings :
        /\ vrm = [loaded |-> TRUE, x |-> p.x, z |-> p.z, yaw |-> h]
        /\ walkState = [InitWalkState EXCEPT !.logicalPosition = p]
  /\ viewer \in Viewers
  /\ loads = 0
  /\ cmds = 0
  /\ ticks = 0
  /\ InitControllers
  /\ neckResult = NoNeckResult
  /\ autoBlinkState = [InitAutoBlink EXCEPT !.enabled = FALSE]
  /\ boneRotationX = [b \in Bones |-> 0]
  /\ clipPoseX = 0
  /\ idleClipDuration = IDLE_DEFAULT_DURATION

\* the action button with "comeHereFront" selected
FrontExecute ==
  /\ cmds < MaxCommands
  /\ Commit(Emit(executeAction([S EXCEPT !.cmds = @ + 1], "comeHereFront",
                               NoRnd, NoInput),
                 "execute", "comeHereFront"),
            "action", 0, FALSE)

\* frames half as long as those of Deltas, so that the turn towards the
\* viewer spans more than one frame
FrontDeltas == {k * 250 : k \in 1..MaxFrameUnits}

\* one frame of the animation loop (wandering is off: no Math.random());
\* ticks holds the parity of the frame number
FrontTick(delta) ==
  /\ delta \in FrontDeltas
  /\ \E r \in BlinkRandomsOf(autoBlinkState) :
       LET s0 == vrmManagerUpdate([S EXCEPT !.ticks = 1 - @])
           s1 == updateWalk(s0, delta)
           s2 == updateRandomBehavior(s1, delta, NoRnd)
           s3 == updateIdleLoopMode(s2, delta)
           s4 == updateLookAtPlayer(s3, delta)
           s5 == updateAction(s4, delta, r)
       IN Commit(Emit(s5, "tick", "frame"), "tick", delta, FALSE)

NextFront ==
  \/ FrontExecute
  \/ \E delta \in FrontDeltas : FrontTick(delta)
  \/ \E ok \in BOOLEAN : WalkClipResolved(ok)
  \/ \E i \in 1..MaxPending, ok \in BOOLEAN : IdleClipResolved(i, ok)

\* the frame number advances: only FrontTick changes ticks
NextFrame == ticks' = 1 - ticks

\* requestAnimationFrame keeps the loop running, so frames never stop
SpecFront ==
  /\ InitFront
  /\ [][NextFront]_vars
  /\ WF_ticks(NextFrame)

(***************************************************************************)
(* The come-here action from the action menu, with a viewer who stands     *)
(* still at any of several distances from the avatar.  The avatar starts   *)
(* at ComeStart with no action running and automatic blinking switched     *)
(* off; nothing but comeHere is pressed.                                   *)
(***************************************************************************)
ComeStart == [x |-> 0, z |-> 0]

\* viewers 0.05 m, 0.3 m, 0.5 m, 0.55 m, 0.6 m, 2 m and 2.4 m away
ComeViewers ==
  {[x |-> p[1], z |-> p[2], dirX |-> 0, dirZ |-> 1, low |-> FALSE] :
     p \in {<<30, 40>>, <<0, 300>>, <<300, 0 - 400>>, <<0, 0 - 550>>,
            <<600, 0>>, <<1200, 0 - 1600>>, <<0, 2400>>}}

InitCome ==
  /\ \E h \in StartHeadings :
        /\ vrm = [loaded |-> TRUE, x |-> ComeStart.x, z |-> ComeStart.z, yaw |-> h]
        /\ walkState = [InitWalkState EXCEPT !.logicalPosition = ComeStart]
  /\ viewer \in ComeViewers
  /\ loads = 0
  /\ cmds = 0
  /\ ticks = 0
  /\ InitControllers
  /\ neckResult = NoNeckResult
  /\ autoBlinkState = [InitAutoBlink EXCEPT !.enabled = FALSE]
  /\ boneRotationX = [b \in Bones |-> 0]
  /\ clipPoseX = 0
  /\ idleClipDuration = IDLE_DEFAULT_DURATION

\* the action button with "comeHere" selected
ComeExecute ==
  /\ cmds < MaxCommands
  /\ Commit(Emit(executeAction([S EXCEPT !.cmds = @ + 1], "comeHere",
                               NoRnd, NoInput),
                 "execute", "comeHere"),
            "action", 0, FALSE)

NextCome ==
  \/ ComeExecute
  \/ \E delta \in FrontDeltas : FrontTick(delta)
  \/ \E ok \in BOOLEAN : WalkClipResolved(ok)
  \/ \E i \in 1..MaxPending, ok \in BOOLEAN : IdleClipResolved(i, ok)

SpecCome == InitCome /\ [][NextCome]_vars

(***************************************************************************)
(* The come-here-front action with a viewer who may move while the avatar  *)
(* approaches.                                                             *)
(***************************************************************************)
NextFrontViewer ==
  \/ NextFront
  \/ \E v \in Viewers : MoveViewer(v)

SpecFrontViewer ==
  /\ InitFront
  /\ [][NextFrontViewer]_vars
  /\ WF_ticks(NextFrame)

(***************************************************************************)
(* The gaze controller alone, driven through its public interface          *)
(* (lookAtPlayer, updateLookAtPlayer) while the viewer moves.              *)
(***************************************************************************)
LookSources == {"auto", "manual"}

ApiLookAtPlayer(source) ==
  /\ cmds < MaxCommands
  /\ LET look == lookAtPlayer([S EXCEPT !.cmds = @ + 1], source)
     IN Commit(Emit(Emit(look.s, "lookAtPlayer", source), "lookAtPlayer",
                    IF look.ret THEN "returned true" ELSE "returned false"),
               "lookAtPlayer", 0, FALSE)

ApiUpdateLookAtPlayer(delta) ==
  /\ delta \in FrontDeltas
  /\ Commit(Emit(updateLookAtPlayer(S, delta), "tick", "frame"), "tick", delta, FALSE)

NextLook ==
  \/ \E source \in LookSources : ApiLookAtPlayer(source)
  \/ \E delta \in FrontDeltas : ApiUpdateLookAtPlayer(delta)
  \/ \E v \in Viewers : MoveViewer(v)

SpecLook == InitFront /\ [][NextLook]_vars

(***************************************************************************)
(* The switch delay of the idle loop for idle clips of any duration: the   *)
(* idle loop plays its first clip and sets its switch timer.               *)
(***************************************************************************)
\* durations from 0 (a clip without a duration) in steps of 50 ms
ClipDurations == {k * 50 : k \in 0..MaxClipUnits}

InitIdleDelay ==
  /\ vrm = [loaded |-> TRUE, x |-> 0, z |-> 0, yaw |-> 0]
  /\ walkState = InitWalkState
  /\ viewer = Viewer1
  /\ loads = 0
  /\ cmds = 0
  /\ ticks = 0
  /\ InitControllers
  /\ neckResult = NoNeckResult
  /\ autoBlinkState = InitAutoBlink
  /\ boneRotationX = [b \in Bones |-> 0]
  /\ clipPoseX = 0
  /\ idleClipDuration \in ClipDurations

\* the same with the default clip duration
InitIdleReady == InitIdleDelay /\ idleClipDuration = IDLE_DEFAULT_DURATION

\* playNextIdle after the clip arrived: the clip plays and the switch timer
\* is set from the clip's duration
IdleClipPlayed ==
  /\ ~idleState.active
  /\ idleState' = [idleState EXCEPT
                     !.active = TRUE,
                     !.idleSwitchTimer = calculateIdleSwitchDelay(idleClipDuration)]
  /\ UNCHANGED <<vrm, viewer, playback, walkState, walkReq, randomState,
                 lookAtState, actionState, comeHereState, comeHereFrontState,
                 waveState, blinkState, lookDownState, reqs, loads, cmds,
                 ticks, ev, obs, clock, idleClipDuration, autoBlinkState,
                 blinkValue, sinceAutoBlink, boneRotationX, clipPoseX,
                 neckResult, idleStale, waitElapsed>>

SpecIdleDelay == InitIdleDelay /\ [][IdleClipPlayed]_vars

(***************************************************************************)
(* The blinks, driven through actionMenu's interface: an avatar with an    *)
(* expressionManager is loaded; executeAction("blink") starts the manual   *)
(* blink, updateAction(delta) is called once per 50 ms frame, and the      *)
(* autoBlinkManager that actionMenu exposes is enabled and disabled.       *)
(* sinceAutoBlink is the tick time accumulated since the last start of an  *)
(* automatic blink, saturating just above MaxBlinkGap.                     *)
(***************************************************************************)
BlinkDeltas == {k * 50 : k \in 1..MaxFrameUnits}

\* the longest time between two starts of the automatic blink: the longest
\* interval, the three phases of the blink, and the frame by which each of
\* the four may overrun
MaxBlinkGap ==
  AUTO_BLINK_MAX_INTERVAL + BLINK_CLOSE_DURATION + BLINK_HOLD_DURATION
    + BLINK_OPEN_DURATION + 4 * 50 * MaxFrameUnits

InitBlink ==
  /\ vrm = [loaded |-> TRUE, x |-> 0, z |-> 0, yaw |-> 0]
  /\ walkState = InitWalkState
  /\ viewer = Viewer1
  /\ loads = 0
  /\ cmds = 0
  /\ ticks = 0
  /\ InitControllers
  /\ neckResult = NoNeckResult
  /\ autoBlinkState = InitAutoBlink
  /\ boneRotationX = [b \in Bones |-> 0]
  /\ clipPoseX = 0
  /\ idleClipDuration = IDLE_DEFAULT_DURATION

BlinkExecute ==
  /\ cmds < MaxCommands
  /\ Commit(executeAction([S EXCEPT !.cmds = @ + 1], "blink", NoRnd, NoInput),
            "action", 0, FALSE)

AutoBlinkDisable ==
  /\ cmds < MaxCommands
  /\ Commit(Emit(autoBlinkDisable([S EXCEPT !.cmds = @ + 1]), "autoBlink", "disable"),
            "action", 0, FALSE)

AutoBlinkEnable(r) ==
  /\ cmds < MaxCommands
  /\ ~autoBlinkState.enabled
  /\ Commit(Emit(autoBlinkEnable([S EXCEPT !.cmds = @ + 1], r), "autoBlink", "enable"),
            "action", 0, FALSE)

\* the stopwatch of the automatic blink after a frame that ended in s
SinceAutoBlink(s, delta) ==
  [s EXCEPT !.since = IF <<"autoBlink", "started">> \in s.ev THEN 0
                      ELSE Min(@ + delta, MaxBlinkGap + 1)]

BlinkTick(delta, r) ==
  /\ ticks \in {0, 1}
  /\ Commit(Emit(SinceAutoBlink(updateAction([S EXCEPT !.ticks = 1 - @], delta, r),
                                delta),
                 "tick", "frame"),
            "tick", delta, FALSE)

NextBlink ==
  \/ BlinkExecute
  \/ AutoBlinkDisable
  \/ \E r \in BlinkRandoms : AutoBlinkEnable(r)
  \/ \E delta \in BlinkDeltas, r \in BlinkRandoms : BlinkTick(delta, r)

SpecBlink == InitBlink /\ [][NextBlink]_vars

\* the animation loop never stops calling updateAction
SpecBlinkLive == SpecBlink /\ WF_ticks(NextFrame)

(***************************************************************************)
(* The neck tilt, driven through actionMenu's interface: an avatar is      *)
(* loaded; playClip starts a clip, either filtered of its head track (the  *)
(* mixer then rewrites the neck every frame and leaves the head alone) or  *)
(* unfiltered (the mixer rewrites both); before that nothing else writes   *)
(* the bones.  The clip holds one pose, in which the bones start.          *)
(* applyManualLookDown sets the target; a frame is vrmManager.update       *)
(* followed by applyPose.                                                  *)
(***************************************************************************)
NeckDeltas == {k * 50 : k \in 1..MaxFrameUnits}

\* poses that leave room for the largest offset inside the bone limits
NeckPoses == {0, degToRad(0 - 1000)}

PoseRequests == {Num(0), Num(LOW_VIEWER_NECK_DEGREES), Num(0 - 6000)}

\* requests around the limits and the epsilon, in hundredths of a degree
NeckRequests ==
  {Num(v) : v \in {0 - 9000, 0 - 6000, 0 - 4501, 0 - 4500, 0 - 4499, 0 - 3000,
                   0 - 2000, 0 - 100, 0 - 51, 0 - 50, 0 - 49, 0 - 1, 0, 1, 49, 50,
                   51, 100, 2000, 3000, 4499, 4500, 4501, 6000, 9000}}
    \cup {NonFinite}

InitNeck ==
  /\ vrm = [loaded |-> TRUE, x |-> 0, z |-> 0, yaw |-> 0]
  /\ walkState = InitWalkState
  /\ viewer = Viewer1
  /\ loads = 0
  /\ cmds = 0
  /\ ticks = 0
  /\ InitControllers
  /\ neckResult = NoNeckResult
  /\ autoBlinkState = InitAutoBlink
  /\ idleClipDuration = IDLE_DEFAULT_DURATION
  /\ clipPoseX \in NeckPoses
  /\ boneRotationX = [b \in Bones |-> clipPoseX]

\* vrmManager.playClip starts the clip, with or without excludeBones
ApiPlayClip(filtered) ==
  /\ playback.currentClipLabel = ""
  /\ Commit(playClip(S, IdleFiles[1], filtered, "idle"), "action", 0, FALSE)

ApiApplyManual(req) ==
  /\ cmds < MaxCommands
  /\ LET res == applyManual([S EXCEPT !.cmds = @ + 1], req)
     IN Commit([Emit(res.s, "applyManual", "returned") EXCEPT
                  !.neckResult = [called |-> TRUE, request |-> req,
                                  angleDeg |-> res.ret]],
               "action", 0, FALSE)

ApiApplyPose(delta) ==
  /\ ticks \in {0, 1}
  /\ Commit(Emit(applyPose(vrmManagerUpdate([S EXCEPT !.ticks = 1 - @]), delta),
                 "tick", "frame"),
            "tick", delta, FALSE)

NextNeck ==
  \/ \E filtered \in BOOLEAN : ApiPlayClip(filtered)
  \/ \E req \in PoseRequests : ApiApplyManual(req)
  \/ \E delta \in NeckDeltas : ApiApplyPose(delta)

SpecNeck == InitNeck /\ [][NextNeck]_vars /\ WF_ticks(NextFrame)

\* applyManual alone, from the initial neck state and after earlier calls
SpecNeckManual == InitNeck /\ [][\E req \in NeckRequests : ApiApplyManual(req)]_vars

(***************************************************************************)
(* The application with one more avatar load: after the loads of Spec a    *)
(* further VRM file is loaded over the running avatar, whatever the        *)
(* controllers are doing.  The run is followed up to the end of that load, *)
(* and before it up to the last frame of Spec.  handleVrmReady draws       *)
(* Math.random() for the target of the first random move only.             *)
(***************************************************************************)
ReloadVrm(rnd) ==
  /\ vrm.loaded
  /\ loads = MaxLoads
  /\ LET s1 == [S EXCEPT !.vrm = [loaded |-> TRUE, x |-> 0, z |-> 0, yaw |-> 0],
                         !.playback = [currentClipLabel |-> "", filtered |-> FALSE,
                                       owner |-> "none"],
                         !.look.gazeTargetSet = FALSE,
                         !.bones = [b \in Bones |-> 0],
                         !.loads = @ + 1]
     IN Commit(handleVrmReady(syncLogicalPositionWithVrm(s1), rnd), "load", 0, FALSE)

NextReload ==
  \/ loads <= MaxLoads /\ ticks < MaxTicks /\ Next
  \/ \E rnd \in Rnds : ~rnd.wave /\ ReloadVrm(rnd)

SpecReload == Init /\ [][NextReload]_vars

(***************************************************************************)
(* The idle loop driven through what reaches it from outside: the idle     *)
(* action (which activates it), deactivateIdleLoopMode, the per-frame      *)
(* update and the settling of its clip lookups.  One lookup more than      *)
(* MaxPending may be outstanding, so that a second request would show,    *)
(* and one call more than MaxCommands is made, so that the loop can be     *)
(* switched on, off and on again.  idleStale counts the outstanding        *)
(* lookups that were requested before the latest deactivateIdleLoopMode    *)
(* call: they are the first idleStale entries of reqs.idle.                *)
(***************************************************************************)
MaxIdlePending == MaxPending + 1

MaxIdleCommands == MaxCommands + 1

\* idleAction.execute(): the idle action button or a return-to-idle call
ApiIdleExecute ==
  /\ cmds < MaxIdleCommands
  /\ CommitWithin(idleActionExecute([S EXCEPT !.cmds = @ + 1]), "action", 0, FALSE,
                  MaxIdlePending)

ApiActivateIdleLoopMode ==
  /\ cmds < MaxIdleCommands
  /\ CommitWithin(activateIdleLoopMode([S EXCEPT !.cmds = @ + 1]), "action", 0,
                  FALSE, MaxIdlePending)

ApiDeactivateIdleLoopMode ==
  /\ cmds < MaxIdleCommands
  /\ CommitWithin([deactivateIdleLoopMode([S EXCEPT !.cmds = @ + 1])
                    EXCEPT !.stale = Len(reqs.idle)],
                  "action", 0, FALSE, MaxIdlePending)

ApiUpdateIdleLoopMode(delta) ==
  /\ ticks \in {0, 1}
  /\ CommitWithin(updateIdleLoopMode([S EXCEPT !.ticks = 1 - @], delta), "tick",
                  delta, FALSE, MaxIdlePending)

ApiIdleClipResolved(i, ok) ==
  /\ i \in 1..Len(reqs.idle)
  /\ CommitWithin([playNextIdleResume(S, i, ok)
                    EXCEPT !.stale = IF i <= @ THEN @ - 1 ELSE @],
                  "resolve", 0, FALSE, MaxIdlePending)

NextIdle ==
  \/ ApiIdleExecute
  \/ ApiActivateIdleLoopMode
  \/ ApiDeactivateIdleLoopMode
  \/ \E delta \in Deltas : ApiUpdateIdleLoopMode(delta)
  \/ \E i \in 1..MaxIdlePending, ok \in BOOLEAN : ApiIdleClipResolved(i, ok)

SpecIdle == InitIdleReady /\ [][NextIdle]_vars

(***************************************************************************)
(* The wave action driven through its interface (execute, update) with an  *)
(* avatar loaded; its clip lookups settle at any time.  One lookup more    *)
(* than MaxPending may be outstanding, so that a second request would      *)
(* show.  The idle loop that a finished wave returns to has its lookups    *)
(* settled as well.                                                        *)
(***************************************************************************)
ApiWaveExecute ==
  /\ cmds < MaxCommands
  /\ CommitWithin(waveExecute([S EXCEPT !.cmds = @ + 1]), "action", 0, FALSE,
                  MaxIdlePending)

ApiWaveClipResolved(ok) ==
  /\ reqs.wave > 0
  /\ CommitWithin(waveExecuteResume(S, ok), "resolve", 0, FALSE, MaxIdlePending)

ApiWaveUpdate(delta) ==
  /\ ticks \in {0, 1}
  /\ CommitWithin(waveUpdate([S EXCEPT !.ticks = 1 - @], delta), "tick", delta,
                  FALSE, MaxIdlePending)

NextWave ==
  \/ ApiWaveExecute
  \/ \E ok \in BOOLEAN : ApiWaveClipResolved(ok)
  \/ \E delta \in Deltas : ApiWaveUpdate(delta)
  \/ \E i \in 1..MaxIdlePending, ok \in BOOLEAN : ApiIdleClipResolved(i, ok)

SpecWave == InitIdleReady /\ [][NextWave]_vars

(***************************************************************************)
(* Wandering over any number of frames: the avatar is loaded (which        *)
(* starts wandering), the animation loop keeps producing frames, every     *)
(* clip lookup settles, and the random action may be pressed again while   *)
(* a walk clip is loading (which re-activates wandering under a pending    *)
(* beginMoveTo).  Automatic blinking has been switched off through the exposed            *)
(* autoBlinkManager, as in InitFront.                                      *)
(***************************************************************************)
InitWander ==
  /\ vrm = [loaded |-> FALSE, x |-> 0, z |-> 0, yaw |-> 0]
  /\ viewer = Viewer1
  /\ loads = 0
  /\ cmds = 0
  /\ ticks = 0
  /\ walkState = InitWalkState
  /\ InitControllers
  /\ neckResult = NoNeckResult
  /\ autoBlinkState = [InitAutoBlink EXCEPT !.enabled = FALSE]
  /\ boneRotationX = [b \in Bones |-> 0]
  /\ clipPoseX = 0
  /\ idleClipDuration = IDLE_DEFAULT_DURATION

\* the action button with "random" selected, during a walk clip lookup
WanderExecute(rnd) ==
  /\ cmds < MaxCommands
  /\ walkState.loading
  /\ Commit(executeAction([S EXCEPT !.cmds = @ + 1], "random", rnd, NoInput),
            "action", 0, FALSE)

\* the tick time a wait phase has lasted: t is the state a frame of length
\* delta makes of s
WaitElapsed(s, t, delta) ==
  [t EXCEPT !.wait = IF s.random.phase = "waiting"
                     THEN Min(@ + delta, 2 * RANDOM_WAIT_SECONDS)
                     ELSE IF t.random.phase = "waiting" THEN 0 ELSE @]

\* one frame of the animation loop; ticks holds the parity of the frame
\* number, waitElapsed the tick time of the wait phase
WanderTick(delta, rnd) ==
  /\ ticks \in {0, 1}
  /\ Commit(Emit(WaitElapsed(S, updateAction(
                   updateLookAtPlayer(
                     updateIdleLoopMode(
                       updateRandomBehavior(
                         updateWalk(vrmManagerUpdate([S EXCEPT !.ticks = 1 - @]),
                                    delta),
                         delta, rnd),
                       delta),
                     delta),
                   delta, 0), delta),
                 "tick", "frame"),
            "tick", delta, FALSE)

NextWander ==
  \/ \E rnd \in Rnds : LoadVrm(rnd)
  \/ \E rnd \in Rnds : WanderExecute(rnd)
  \/ \E delta \in Deltas, rnd \in Rnds : WanderTick(delta, rnd)
  \/ \E ok \in BOOLEAN : WalkClipResolved(ok)
  \/ \E i \in 1..MaxPending, ok \in BOOLEAN : RandomIdleClipResolved(i, ok)
  \/ \E ok \in BOOLEAN : RandomWaveClipResolved(ok)

SpecWander == InitWander /\ [][NextWander]_vars

(***************************************************************************)
(* Wandering with every clip lookup succeeding, frames that keep coming    *)
(* (requestAnimationFrame) and walk clip lookups that settle.              *)
(***************************************************************************)
WalkLookupSettles == walkReq.caller # "none" /\ walkReq' = NoWalkReq

NextWanderLive ==
  \/ \E rnd \in Rnds : LoadVrm(rnd)
  \/ \E rnd \in Rnds : WanderExecute(rnd)
  \/ \E delta \in Deltas, rnd \in Rnds : WanderTick(delta, rnd)
  \/ WalkClipResolved(TRUE)
  \/ \E i \in 1..MaxPending : RandomIdleClipResolved(i, TRUE)
  \/ RandomWaveClipResolved(TRUE)

SpecWanderLive ==
  /\ InitWander
  /\ [][NextWanderLive]_vars
  /\ WF_ticks(NextFrame)
  /\ WF_walkReq(WalkLookupSettles)

(***************************************************************************)
(* Properties.                                                             *)
(***************************************************************************)
AfterTick == <<"tick", "frame">> \in ev

comeHereIsInProgress == comeHereState.inProgress

comeHereFrontIsInProgress ==
  comeHereFrontState.inProgress \/ comeHereFrontState.turnToPlayerState.active

Count(flags) == Cardinality({i \in DOMAIN flags : flags[i]})

\* C1: the idle cycle and wandering are never both active, whatever the
\* sequence of action requests, avatar loads, clip resolutions and frames;
\* activating either one deactivates the other.
IdleWanderExclusive == ~(idleState.active /\ randomState.active)

\* wandering has just been started by the action button while the idle
\* cycle was active, and the idle cycle is off
IdleWanderExclusiveWitness ==
  /\ <<"status", "random started">> \in ev
  /\ <<"idle", "deactivated">> \in ev
  /\ randomState.active
  /\ ~idleState.active

\* C2 (as claimed): after every frame at most one of the idle cycle,
\* wandering and a clip-driving discrete action (comeHere, comeHereFront,
\* manual wave) is active.
OneClipDriver ==
  AfterTick =>
    Count(<<idleState.active, randomState.active,
            comeHereIsInProgress \/ comeHereFrontIsInProgress
              \/ waveState.inProgress>>) <= 1

\* C3 (as claimed): after every frame the three writers of the avatar's
\* yaw (the walk, the gaze body turn, the turn of comeHereFront towards the
\* viewer) are pairwise exclusive.
OneYawWriter ==
  AfterTick =>
    Count(<<walkState.moving, lookAtState.turnState.active,
            comeHereFrontState.turnToPlayerState.active>>) <= 1

\* C4 (as claimed): after every frame comeHere and comeHereFront are not
\* both in progress.
OneComeHere ==
  AfterTick => ~(comeHereIsInProgress /\ comeHereFrontIsInProgress)

\* C5 (as claimed): once comeHere or comeHereFront has requested a move,
\* the avatar walks only for that request: a walk that is moving was
\* started by the latest requester.
LatestRequestWalks ==
  (obs.latest \in {"comeHere", "comeHereFront"} /\ walkState.moving)
    => obs.owner = obs.latest

\* C6 (as claimed): in the step in which a discrete action completes while
\* wandering is not active, the idle cycle is activated.
CompletionReturnsToIdle ==
  ((\E a \in Actions : <<"complete", a>> \in ev) /\ ~randomState.active)
    => (<<"idle", "activated">> \in ev /\ idleState.active)

\* C7 (as claimed): once wandering is deactivated no walk started by
\* wandering is moving.
NoWanderWalkAfterDeactivation ==
  ~(walkState.moving /\ obs.owner = "random" /\ ~randomState.active)

\* C8 (as claimed): a beginMoveTo during whose clip lookup finishWalking
\* was called does not start the walk.
FinishWalkingCancelsPendingMove == ~(obs.finishedWhileLoading /\ walkState.moving)

\* C9: loading is true for as long as an accepted beginMoveTo has not
\* returned; when it returns true the walk is moving; comeHere and
\* comeHereFront never report the end of the walk while their accepted
\* beginMoveTo has not returned.
LoadingCoversLookup ==
  /\ walkReq.caller # "none" => walkState.loading
  /\ <<"beginMoveTo", "returned true">> \in ev => walkState.moving
  /\ <<"complete", "comeHere">> \in ev => walkReq.caller # "comeHere"
  /\ <<"walkEnded", "comeHereFront">> \in ev => walkReq.caller # "comeHereFront"

\* comeHere has completed in the frame in which its accepted walk arrived
LoadingCoversLookupWitness ==
  /\ <<"complete", "comeHere">> \in ev
  /\ <<"walk", "arrived">> \in ev
  /\ walkState.logicalPosition = walkState.target
  /\ walkState.target # [x |-> 0, z |-> 0]

AtTarget == walkState.logicalPosition = walkState.target /\ ~walkState.moving

\* C10 (as claimed): once updateWalk has been ticked for the turn duration
\* plus distance / speed after beginMoveTo returned true, with no
\* cancellation, the logical position is the target and isMoving() is false.
ArrivedAfterPathTime ==
  (clock.started /\ ~clock.cancelled /\ clock.elapsed >= clock.budget) => AtTarget

\* C10 (amended): the same after one further updateWalk tick, the one that
\* finds the avatar within the stop distance.
ArrivedOneTickAfterPathTime ==
  (clock.started /\ ~clock.cancelled /\ clock.overTicks >= 1) => AtTarget

\* a walk with a turn has arrived on the tick after its path time
ArrivedOneTickAfterPathTimeWitness ==
  /\ clock.started /\ ~clock.cancelled /\ clock.overTicks = 1
  /\ clock.budget > TURN_MAX_DURATION
  /\ <<"walk", "arrived">> \in ev
  /\ AtTarget

\* C11: while the walk's turn is active the logical position does not
\* change, and after the tick that ends the turn and takes the first
\* translation step the yaw is the turn's target heading.
TurnThenWalkStep ==
  /\ walkState'.turnState.active
       => walkState'.logicalPosition = walkState.logicalPosition
  /\ (walkState.turnState.active /\ ~walkState'.turnState.active
        /\ <<"tick", "frame">> \in ev')
       => normalizeRadians(vrm'.yaw) =
            normalizeRadians(walkState.turnState.targetAngle)

TurnThenWalk == [][TurnThenWalkStep]_vars

\* the turn of a walk has just ended in a tick that also moved the avatar
TurnThenWalkWitness ==
  /\ <<"status", "moving">> \in ev
  /\ walkState.moving
  /\ walkState.turnState.elapsed >= walkState.turnState.duration
  /\ walkState.turnState.duration > 0
  /\ walkState.logicalPosition # walkState.target
  /\ [x |-> vrm.x, z |-> vrm.z] \notin StartPositions
  /\ normalizeRadians(vrm.yaw) = normalizeRadians(walkState.turnState.targetAngle)

\* the avatar stands within the stop distance of the point in front of the
\* viewer, faces the viewer, and comeHereFront is not in progress
FrontReached ==
  LET target == ComeHereFrontTarget(S)
  IN /\ ~comeHereFrontIsInProgress
     /\ ~walkState.moving
     /\ Hypot(target.x - walkState.logicalPosition.x,
              target.z - walkState.logicalPosition.z) <= STOP_DISTANCE
     /\ normalizeRadians(vrm.yaw) =
          normalizeRadians(Atan2(viewer.x - vrm.x, viewer.z - vrm.z))

\* C12 as stated: after comeHereFront.execute() with an avatar loaded and
\* enough ticks, the avatar stands in front of the viewer, faces the viewer
\* and the action is not in progress.
ExecuteLeadsToFront ==
  (<<"execute", "comeHereFront">> \in ev /\ vrm.loaded) ~> FrontReached

\* C12: once comeHereFront.execute() has started its walk (the front point
\* was more than the skip threshold away and the walk clip resolved), after
\* enough ticks the avatar stands in front of the viewer, faces the viewer
\* and the action is not in progress.
AcceptedLeadsToFront ==
  (comeHereFrontState.inProgress /\ walkState.moving) ~> FrontReached

\* the action has just completed with the avatar in front of the viewer,
\* after a walk of more than the skip threshold
AcceptedLeadsToFrontWitness ==
  /\ <<"complete", "comeHereFront">> \in ev
  /\ <<"status", "turned to player">> \in ev
  /\ FrontReached
  /\ [x |-> vrm.x, z |-> vrm.z] \notin StartPositions

\* C13: an accepted comeHereFront stays in progress until its last
\* sub-phase has resolved: isInProgress() turns false only in the tick that
\* completes the action, and it is not false while a body turn started by
\* the final gaze lock is running.
FrontInProgressStep ==
  /\ (comeHereFrontIsInProgress /\ ~walkState.loading
        /\ ~comeHereFrontIsInProgress')
       => <<"complete", "comeHereFront">> \in ev'
  /\ (actionState'.currentAction = "comeHereFront"
        /\ lookAtState'.turnState.active)
       => comeHereFrontIsInProgress'

FrontInProgressUntilResolved == [][FrontInProgressStep]_vars

\* the fields of the gaze body turn that describe its course
TurnCourse(turn) == <<turn.active, turn.startAngle, turn.targetAngle,
                      turn.duration, turn.elapsed>>

\* C14: lookAtPlayer during a running gaze body turn returns false, records
\* its source and leaves the turn as it is; the tick that completes the
\* turn re-invokes lookAtPlayer with the recorded source: it either starts
\* a new turn for that source or sets the gaze with the record reset.
LookDuringTurnStep ==
  /\ \A source \in LookSources :
       (lookAtState.turnState.active /\ <<"lookAtPlayer", source>> \in ev')
         => /\ <<"lookAtPlayer", "returned false">> \in ev'
            /\ TurnCourse(lookAtState'.turnState) = TurnCourse(lookAtState.turnState)
            /\ lookAtState'.turnState.resumeSource = source
            /\ vrm' = vrm
  /\ \A delta \in FrontDeltas :
       (lookAtState.turnState.active /\ <<"tick", "frame">> \in ev'
          /\ lookAtState.turnState.elapsed + delta >= lookAtState.turnState.duration
          /\ lookAtState'.turnState.elapsed \in {0, lookAtState.turnState.elapsed + delta})
         => \/ /\ lookAtState'.turnState.active
               /\ lookAtState'.turnState.elapsed = 0
               /\ lookAtState'.turnState.resumeSource =
                    lookAtState.turnState.resumeSource
               /\ lookAtState'.turnState.startAngle =
                    normalizeRadians(lookAtState.turnState.targetAngle)
            \/ /\ ~lookAtState'.turnState.active
               /\ lookAtState'.turnState.resumeSource = "auto"
               /\ vrm'.yaw = lookAtState.turnState.targetAngle
               /\ lookAtState'.gazeTargetSet \/ computeDesiredYawToPlayer(S).null

LookDuringTurn == [][LookDuringTurnStep]_vars

\* a body turn started for "manual" has completed after the viewer moved,
\* and its re-invocation has started a new turn for "manual"
LookDuringTurnWitness ==
  /\ <<"tick", "frame">> \in ev
  /\ lookAtState.turnState.active
  /\ lookAtState.turnState.elapsed = 0
  /\ lookAtState.turnState.resumeSource = "manual"
  /\ viewer # Viewer1

\* the phase changes of wandering: idle -> moving -> waiting -> moving
PhaseChanges == {<<"idle", "moving">>, <<"moving", "waiting">>,
                 <<"waiting", "moving">>}

\* C15: while wandering is active (and is not activated anew) its phase
\* changes only from idle to moving, from moving to waiting and from
\* waiting to moving.
WanderPhaseStep ==
  (randomState.active /\ randomState'.active
     /\ <<"status", "random started">> \notin ev'
     /\ randomState'.phase # randomState.phase)
    => <<randomState.phase, randomState'.phase>> \in PhaseChanges

WanderPhaseOrder == [][WanderPhaseStep]_vars

\* the lookup of the walk clip for a move of wandering has just failed
WanderClipFailed ==
  /\ walkReq.caller = "random"
  /\ walkReq'.caller = "none"
  /\ <<"beginMoveTo", "returned false">> \in ev'

\* C16: when the walk clip cannot be resolved for a move that wandering
\* starts, a status message is emitted and wandering is inactive afterwards.
WanderClipFailureStep ==
  WanderClipFailed => /\ \E e \in ev' : e[1] = "status"
                      /\ ~randomState'.active

WanderClipFailureReported == [][WanderClipFailureStep]_vars

\* the lookup of the walk clip for a move of the given action has just failed
WalkClipFailedFor(caller) ==
  /\ walkReq.caller = caller
  /\ walkReq'.caller = "none"
  /\ <<"beginMoveTo", "returned false">> \in ev'

\* the lookup of the wave action's clip has just ended without a clip
WaveClipFailed ==
  /\ reqs'.wave < reqs.wave
  /\ <<"playClip", "wave">> \notin ev'

\* C17: when the clip lookup fails inside comeHere, comeHereFront or wave,
\* the failure is reported to the status sink and afterwards the walk is
\* neither loading nor moving and the action is not in progress.
ClipFailureStep ==
  /\ WalkClipFailedFor("comeHere")
       => /\ <<"status", "walk clip failed">> \in ev'
          /\ <<"status", "could not come">> \in ev'
          /\ ~walkState'.loading /\ ~walkState'.moving
          /\ ~comeHereState'.inProgress
  /\ WalkClipFailedFor("comeHereFront")
       => /\ <<"status", "walk clip failed">> \in ev'
          /\ <<"status", "could not come to the front">> \in ev'
          /\ ~walkState'.loading /\ ~walkState'.moving
          /\ ~comeHereFrontState'.inProgress
  /\ WaveClipFailed
       => /\ <<"status", "wave failed">> \in ev'
          /\ ~waveState'.inProgress

ClipFailureRollsBack == [][ClipFailureStep]_vars

\* the walk clip of a comeHere request has just failed: the failure was
\* reported and the request's flags are cleared
ClipFailureRollsBackWitness ==
  /\ <<"status", "could not come">> \in ev
  /\ <<"status", "walk clip failed">> \in ev
  /\ actionState.currentAction = "comeHere"
  /\ ~walkState.loading /\ ~walkState.moving /\ ~comeHereState.inProgress

\* the status texts of a request rejected for a failed precondition
RejectionTexts == {"wait for VRM", "already coming", "already blinking",
                   "already waving"}

\* C18: an executeAction request rejected for a failed precondition
\* reports to the status sink and leaves currentAction, the active flags of
\* the idle loop and of wandering, walkState and the playback state as they
\* were before the call.
RejectedRequestStep ==
  (\E text \in RejectionTexts : <<"status", text>> \in ev')
    => /\ actionState'.currentAction = actionState.currentAction
       /\ idleState'.active = idleState.active
       /\ randomState'.active = randomState.active
       /\ walkState' = walkState
       /\ playback' = playback

RejectedRequestLeavesState == [][RejectedRequestStep]_vars

\* the clips the controllers play
ClipLabels == {"walk", "wave"} \cup {IdleFiles[i] : i \in DOMAIN IdleFiles}

\* C19: playClip of the clip that the preceding playClip started, with the
\* same options (excludeBones included), is a no-op: no action is reset and
\* played and the playback state stays as it is.
ReplayStep ==
  \A label \in ClipLabels :
    (/\ playback.currentClipLabel = label
     /\ {e \in ev' : e[1] = "clipAction"} = {<<"clipAction", label>>}
     /\ (<<"excludeBones", label>> \in ev') = playback.filtered)
      => /\ <<"mixer", "action started">> \notin ev'
         /\ playback'.currentClipLabel = playback.currentClipLabel
         /\ playback'.filtered = playback.filtered

ReplayIsNoOp == [][ReplayStep]_vars

\* C20 as stated: for every clip duration the switch delay is greater than
\* 0 and less than the duration, and it is 2.4 s for a clip of 2.9 s.
IdleDelayInsideClip ==
  idleState.active
    => /\ idleState.idleSwitchTimer > 0
       /\ idleState.idleSwitchTimer < idleClipDuration
       /\ idleClipDuration = 2900 => idleState.idleSwitchTimer = 2400

\* C20: for every clip duration above 0.1 s the switch delay is greater
\* than 0 and less than the duration, and it is 2.4 s for a clip of 2.9 s.
IdleDelayInsideLongClip ==
  (idleState.active /\ idleClipDuration > 100)
    => /\ idleState.idleSwitchTimer > 0
       /\ idleState.idleSwitchTimer < idleClipDuration
       /\ idleClipDuration = 2900 => idleState.idleSwitchTimer = 2400

\* the switch timer has been set for a clip of 2.9 s
IdleDelayInsideLongClipWitness ==
  /\ idleState.active
  /\ idleClipDuration = 2900
  /\ idleState.idleSwitchTimer = 2400

\* C21: the idle loop never calls playClip while the walk is moving,
\* whenever its clip lookup resolves.
IdleNeverPlaysWhileMovingStep ==
  <<"playClip", "idle">> \in ev' => ~walkState.moving /\ ~walkState'.moving

IdleNeverPlaysWhileMoving == [][IdleNeverPlaysWhileMovingStep]_vars

\* an idle clip lookup has just resolved while the avatar walks with the
\* idle loop active, and no clip was played
IdleNeverPlaysWhileMovingWitness ==
  /\ idleState.active
  /\ walkState.moving
  /\ ~idleState.idleRequestInFlight
  /\ reqs.idle = <<>>
  /\ ev = {}

\* C22 (as claimed): with automatic blinking enabled, an avatar with
\* expression support and no manual blink executed, every window of
\* 8 seconds of accumulated tick time contains at least one start of an
\* automatic blink.
AutoBlinkEveryWindow ==
  cmds = 0 => sinceAutoBlink <= AUTO_BLINK_MAX_INTERVAL

\* C22 (amended): ... every window of 8 seconds plus the duration of a blink
\* (0.3 s) plus four frames contains at least one start of an automatic
\* blink: the countdown is re-armed when the blink completes.
AutoBlinkEveryGap == cmds = 0 => sinceAutoBlink <= MaxBlinkGap

\* no command was made, an automatic blink has completed and more than
\* 8 seconds have been ticked since it started
AutoBlinkEveryGapWitness ==
  /\ cmds = 0
  /\ autoBlinkState.enabled /\ ~autoBlinkState.inProgress
  /\ autoBlinkState.nextBlinkTime < AUTO_BLINK_FIRST
  /\ sinceAutoBlink > AUTO_BLINK_MAX_INTERVAL

\* C23: the automatic blink never goes from not-in-progress to in-progress
\* on a tick on which the manual blink is in progress, and after each
\* completed automatic blink the countdown to the next one is re-armed to a
\* value in [2 s, 8 s].
AutoBlinkYieldsStep ==
  /\ (~autoBlinkState.inProgress /\ autoBlinkState'.inProgress)
        => ~blinkState'.inProgress
  /\ (autoBlinkState.inProgress /\ ~autoBlinkState'.inProgress)
        => /\ autoBlinkState'.nextBlinkTime >= AUTO_BLINK_MIN_INTERVAL
           /\ autoBlinkState'.nextBlinkTime <= AUTO_BLINK_MAX_INTERVAL

AutoBlinkYields == [][AutoBlinkYieldsStep]_vars

\* a frame has run during a manual blink while the countdown, re-armed
\* after an automatic blink, was within one frame of its end
AutoBlinkYieldsWitness ==
  /\ AfterTick
  /\ blinkState.inProgress
  /\ autoBlinkState.enabled /\ ~autoBlinkState.inProgress
  /\ autoBlinkState.nextBlinkTime > 0
  /\ autoBlinkState.nextBlinkTime < 50

\* the stricter reading of C23: no start of the automatic blink in a frame
\* that began with the manual blink in progress
AutoBlinkYieldsStrictly ==
  [][(~autoBlinkState.inProgress /\ autoBlinkState'.inProgress)
        => ~blinkState.inProgress]_vars

\* C24 (as claimed): if disable() is called while an automatic blink is in
\* progress, the blink still runs to completion on later ticks: it is
\* eventually no longer in progress and the eyelid value is back at 0.
DisabledBlinkCompletes ==
  (~autoBlinkState.enabled /\ autoBlinkState.inProgress)
    ~> (~autoBlinkState.inProgress /\ blinkValue = 0)

\* one step of a blink cycle: a blink starts in closing, moves only from
\* closing to closed and from closed to opening, enters opening with the
\* eyelid at 1, ends only from opening and leaves the eyelid at 0
CycleStep(b, c) ==
  /\ (~b.inProgress /\ c.inProgress) => c.phase = "closing"
  /\ (b.inProgress /\ c.inProgress /\ c.phase # b.phase)
        => \/ b.phase = "closing" /\ c.phase = "closed"
           \/ b.phase = "closed" /\ c.phase = "opening" /\ blinkValue' = 1000
  /\ (b.inProgress /\ ~c.inProgress) => b.phase = "opening" /\ blinkValue' = 0

BlinkCycleStep ==
  /\ CycleStep(blinkState, blinkState')
  /\ CycleStep(autoBlinkState, autoBlinkState')
  /\ blinkValue' >= 0 /\ blinkValue' <= 1000

\* C25 (as claimed): every blink, manual or automatic, passes through the
\* phases closing, closed, opening in that order and then ends; the eyelid
\* value is within [0,1] in every state, is 1 when the opening phase begins
\* and 0 when the in-progress flag becomes false, also when a manual blink
\* is started while an automatic blink is in mid-cycle.
BlinkCycle ==
  /\ [][BlinkCycleStep]_vars
  /\ blinkState.inProgress ~> ~blinkState.inProgress
  /\ autoBlinkState.inProgress ~> ~autoBlinkState.inProgress

\* the offset stored for the bone, 0 when none is stored
StoredOffset(st, b) == IF b \in DOMAIN st.boneOffsets THEN st.boneOffsets[b] ELSE 0

\* weight x target for the target in force
WeightedTarget(b) ==
  IF lookDownState.enabled /\ Abs(lookDownState.targetAngleRad) > LOOK_DOWN_EPSILON
  THEN (lookDownState.targetAngleRad * Weight(b)) \div 100 ELSE 0

\* the bones whose pose the mixer rewrites every frame
RewrittenBones ==
  IF playback.currentClipLabel = "" THEN {}
  ELSE IF playback.filtered THEN Bones \ {"head"} ELSE Bones

\* a frame adds to the bone's pose (the clip's pose if the mixer rewrote it,
\* else the rotation the bone had) only the change of the stored offset,
\* and the stored offset moves no further from weight x target
NoCompoundingStep ==
  ticks' # ticks =>
    \A b \in Bones :
      /\ b \in DOMAIN lookDownState'.boneOffsets =>
           boneRotationX'[b] =
             (IF b \in RewrittenBones THEN clipPoseX ELSE boneRotationX[b])
               - StoredOffset(lookDownState, b) + StoredOffset(lookDownState', b)
      /\ Abs(StoredOffset(lookDownState', b) - WeightedTarget(b))
           <= Abs(StoredOffset(lookDownState, b) - WeightedTarget(b))

\* every stored offset is within the rounding of one blend step of
\* weight x target
OffsetsConverged ==
  \A b \in Bones : Abs(StoredOffset(lookDownState, b) - WeightedTarget(b)) <= 2

RotationsStay == \A b \in Bones : boneRotationX'[b] = boneRotationX[b]

\* C26: with the neck-tilt target held at one fixed angle and applyPose
\* called once per tick, each weighted bone's stored offset converges to
\* weight x target and the bone's rotation settles to a stable value and
\* stays there; the offset applied in earlier ticks is never added again,
\* for a bone whose pose the animation rewrites every tick and for a bone
\* nothing else writes.
NeckTiltSettles ==
  /\ [][NoCompoundingStep]_vars
  /\ <>[]OffsetsConverged
  /\ <>[][RotationsStay]_vars

\* the head, which the filtered clip leaves alone, carries its whole offset
\* and the neck, which the mixer rewrites, stands in the clip's pose
NeckTiltSettlesWitness ==
  /\ playback.filtered
  /\ lookDownState.enabled
  /\ lookDownState.targetAngleRad = degToRad(LOW_VIEWER_NECK_DEGREES)
  /\ OffsetsConverged
  /\ boneRotationX["head"] = clipPoseX + StoredOffset(lookDownState, "head")
  /\ boneRotationX["neck"] = clipPoseX

VrmReadyStep ==
  loads' # loads =>
    /\ lookDownState' = InitLookDown
    /\ randomState'.active
    /\ ~idleState'.active

VrmReadyResets == [][VrmReadyStep]_vars

\* a second avatar has just been loaded while the idle cycle was active
VrmReadyResetsWitness ==
  /\ loads = MaxLoads + 1
  /\ <<"idle", "deactivated">> \in ev
  /\ <<"status", "random started">> \in ev
  /\ lookDownState = InitLookDown
  /\ randomState.active

\* prior states of the second load: the tilt is on with offsets stored and
\* the bone lookups cached while comeHere walks
TiltedBeforeReload ==
  /\ loads = MaxLoads
  /\ lookDownState.enabled
  /\ DOMAIN lookDownState.boneOffsets = Bones
  /\ lookDownState.boneCache = Bones
  /\ walkState.moving

\* C29: for every initial horizontal distance between the avatar and a
\* stationary viewer, an uninterrupted comeHere action ends with the avatar
\* 0.5 m short of the viewer (within the stop distance), on the segment
\* between its start position and the viewer; it never ends closer to the
\* viewer than 0.5 m.
Dist(p, q) == Sqrt((p.x - q.x) * (p.x - q.x) + (p.z - q.z) * (p.z - q.z))

\* p lies on the segment from a to b, up to the rounding of a millimetre
OnSegment(p, a, b) ==
  /\ (p.x - a.x) * (b.x - p.x) + (p.z - a.z) * (b.z - p.z) >= 0
  /\ Abs((p.x - a.x) * (b.z - a.z) - (p.z - a.z) * (b.x - a.x)) <= 2 * Dist(a, b)

\* the frame in which the walk arrives and comeHere completes
ComeHereArrives ==
  /\ comeHereState.inProgress
  /\ walkState.moving
  /\ ~comeHereState'.inProgress

ComeHereStopsShortStep ==
  ComeHereArrives =>
    /\ Abs(Dist(vrm', viewer') - APPROACH_MARGIN) <= STOP_DISTANCE
    /\ cmds = 1 => OnSegment(vrm', ComeStart, viewer')

ComeHereStopsShort == [][ComeHereStopsShortStep]_vars

\* what the code provides: the claim for a viewer at least 0.6 m away
ComeHereStopsShortFromAfarStep ==
  (ComeHereArrives /\ Dist(vrm, viewer) >= APPROACH_MARGIN + APPROACH_MIN)
    => ComeHereStopsShortStep

ComeHereStopsShortFromAfar == [][ComeHereStopsShortFromAfarStep]_vars

\* comeHere has arrived 0.5 m short of a viewer who stood 0.6 m or more away
ComeHereArrivedFromAfar ==
  /\ cmds = 1
  /\ ~comeHereState.inProgress
  /\ ~walkState.moving
  /\ Dist(ComeStart, viewer) >= APPROACH_MARGIN + APPROACH_MIN
  /\ Dist(vrm, viewer) = APPROACH_MARGIN
  /\ Dist(vrm, ComeStart) > 0

\* C30: at most one idle-cycle clip request is outstanding at any time, under
\* any sequence of activateIdleLoopMode, deactivateIdleLoopMode,
\* idleAction.execute and ticks: a new request is never issued before the
\* previous one has resolved.
OneIdleRequestOutstanding == Len(reqs.idle) <= 1

\* C31: an idle clip request issued before a deactivateIdleLoopMode call never
\* results in a playClip or an idleSwitchTimer update after that call, even
\* if the idle cycle has been re-activated before the request resolves, and
\* its completion does not clear the in-flight flag of a newer request.
StaleIdleResolves == idleStale' < idleStale

StaleIdleRequestStep ==
  StaleIdleResolves =>
    /\ <<"playClip", "idle">> \notin ev'
    /\ idleState'.idleSwitchTimer = idleState.idleSwitchTimer
    /\ Len(reqs'.idle) > idleStale' =>
         idleState'.idleRequestInFlight = idleState.idleRequestInFlight

StaleIdleRequestIsDropped == [][StaleIdleRequestStep]_vars

\* C32: if waveAction.execute() is called again before the first call's clip
\* lookup has completed, the second call is rejected as already in progress:
\* no second clip request is issued and the wave's resumeTimer is set
\* exactly once per wave.
WaveRequestedOnceStep ==
  /\ reqs'.wave > reqs.wave => reqs.wave = 0
  /\ <<"playClip", "wave">> \in ev' => ~waveState.inProgress

WaveRequestedOnce == [][WaveRequestedOnceStep]_vars

\* C33: during a wandering wait phase, from the moment the wave gesture
\* starts playing (playingWave true) until its resume timer expires,
\* wandering never plays an idle clip, not even for an idle request that was
\* in flight when the gesture started; and in the frame in which the timer
\* expires with the wait phase continuing, an idle clip lookup is under way.
GestureTimerExpires ==
  /\ randomState.playingWave
  /\ ~randomState'.playingWave
  /\ randomState'.phase = "waiting"

NoIdleDuringGestureStep ==
  /\ randomState.playingWave => <<"playClip", "randomIdle">> \notin ev'
  /\ GestureTimerExpires =>
       /\ randomState'.idleRequestInFlight
       /\ Len(reqs'.randomIdle) >= 1

NoIdleDuringGesture == [][NoIdleDuringGestureStep]_vars

\* the gesture plays while an idle clip lookup is still outstanding
NoIdleDuringGestureWitness ==
  /\ randomState.playingWave
  /\ playback.owner = "randomWave"
  /\ randomState.idleRequestInFlight
  /\ Len(reqs.randomIdle) = 1

\* the gesture's timer has just expired and the idle clip is requested
GestureTimerExpired ==
  /\ randomState.phase = "waiting"
  /\ randomState.wavePlayedThisCycle
  /\ ~randomState.playingWave
  /\ playback.owner = "randomWave"
  /\ Len(reqs.randomIdle) = 1

\* C34: within one wandering wait phase the wave gesture clip is requested
\* at most once at a time and played at most once, and it is never played in
\* a wait phase that scheduled no gesture (waveTimer is Infinity there),
\* also when a request from an earlier phase resolves late or fails.
WavePlayedAsScheduledStep ==
  /\ reqs'.randomWave <= 1
  /\ <<"playClip", "randomWave">> \in ev' =>
       /\ randomState.waveTimer # Infinity
       /\ ~randomState.wavePlayedThisCycle

WavePlayedAsScheduled == [][WavePlayedAsScheduledStep]_vars

\* C35: while wandering stays active, a wait phase begins in the first frame
\* that finds the random walk arrived, and it lasts RANDOM_WAIT_SECONDS of
\* accumulated tick time: the frame that requests the next random move is
\* the one in which the wait's tick time reaches 6 s, and none before it.
WaitBeginsStep ==
  (/\ randomState.active
   /\ randomState.phase = "moving"
   /\ ~randomState.pendingMove
   /\ ~walkState'.moving) =>
     /\ randomState'.phase = "waiting"
     /\ randomState'.waitRemaining = RANDOM_WAIT_SECONDS
     /\ waitElapsed' = 0

WaitEndsStep ==
  /\ (randomState.phase = "waiting" /\ randomState'.phase = "moving") =>
       /\ waitElapsed < RANDOM_WAIT_SECONDS
       /\ waitElapsed' >= RANDOM_WAIT_SECONDS
  /\ (randomState.phase = "waiting" /\ waitElapsed' >= RANDOM_WAIT_SECONDS) =>
       randomState'.phase = "moving"

WaitPhaseStep ==
  <<"tick", "frame">> \in ev' => WaitBeginsStep /\ WaitEndsStep

WaitPhaseLastsSixSeconds == [][WaitPhaseStep]_vars

\* the next random move has been requested after a wait of 6 s
WaitPhaseLastsSixSecondsWitness ==
  /\ randomState.active
  /\ randomState.phase = "moving"
  /\ randomState.hasTarget
  /\ waitElapsed = RANDOM_WAIT_SECONDS

\* C36: while a walk is moving and not turning, each updateWalk tick moves
\* the logical position along the straight line to the target by
\* min(remaining distance, speed x delta): the distance to the target never
\* increases and the position never passes the target.  Positions are whole
\* millimetres, so lengths agree up to the rounding of a step (2 mm).
WalkStepLength(d) == {Min(d, (WALK_SPEED * delta) \div 1000) : delta \in Deltas}

Between(c, a, b) == (a <= c /\ c <= b) \/ (b <= c /\ c <= a)

UpdateWalkAdvancesStep ==
  (/\ <<"tick", "frame">> \in ev'
   /\ walkState.moving
   /\ ~walkState.turnState.active) =>
     /\ Dist(walkState'.logicalPosition, walkState.target)
          <= Dist(walkState.logicalPosition, walkState.target)
     /\ Between(walkState'.logicalPosition.x, walkState.logicalPosition.x,
                walkState.target.x)
     /\ Between(walkState'.logicalPosition.z, walkState.logicalPosition.z,
                walkState.target.z)
     /\ OnSegment(walkState'.logicalPosition, walkState.logicalPosition,
                  walkState.target)
     /\ \E len \in WalkStepLength(Dist(walkState.logicalPosition, walkState.target)) :
           Abs(Dist(walkState.logicalPosition, walkState'.logicalPosition) - len) <= 2

UpdateWalkAdvances == [][UpdateWalkAdvancesStep]_vars

\* a step shorter than speed x delta has brought the walk onto its target
UpdateWalkAdvancesWitness ==
  /\ walkState.moving
  /\ ~walkState.turnState.active
  /\ walkState.logicalPosition = walkState.target
  /\ <<"tick", "frame">> \in ev
  /\ walkState.target = [x |-> 1000, z |-> 1000]
  /\ cmds = 1

\* C37: while wandering stays active with an avatar loaded and clip lookups
\* succeeding, wandering never stalls: from every reachable state, phase
\* "idle" after a rejected beginMoveTo included, a new random move
\* eventually starts.
WanderingNeverStalls ==
  (vrm.loaded /\ randomState.active /\ randomState.phase # "moving")
    ~> (randomState.phase = "moving")

\* C38: after handleVrmReady, in every quiescent state (no discrete action
\* in progress, no walk moving or loading, no clip request outstanding)
\* exactly one of the idle cycle and wandering is active, also after a
\* come-here request that was rejected, skipped or failed.
Quiescent ==
  /\ vrm.loaded
  /\ ~comeHereState.inProgress
  /\ ~comeHereFrontState.inProgress
  /\ ~waveState.inProgress
  /\ ~blinkState.inProgress
  /\ ~actionState.lookAtPlayerInProgress
  /\ ~walkState.moving
  /\ ~walkState.loading
  /\ walkReq = NoWalkReq
  /\ reqs.idle = <<>>
  /\ reqs.randomIdle = <<>>
  /\ reqs.randomWave = 0
  /\ reqs.wave = 0

OnePrimaryMode == Quiescent => (idleState.active # randomState.active)

\* a come-here action has ended and left the avatar without a primary mode
NoModeAfterComeHere ==
  /\ Quiescent
  /\ ~idleState.active
  /\ ~randomState.active
  /\ actionState.currentAction = "comeHere"

\* no primary mode is active and the walk clip is still playing
NoModeWalkClipPlaying ==
  /\ Quiescent
  /\ ~idleState.active
  /\ ~randomState.active
  /\ playback.currentClipLabel = "walk"

\* C39: engaging the neck tilt and releasing it (until no bone offset is
\* stored) restores each bone's rotation to the base rotation it had before
\* engagement, for every base rotation and target, and leaves no residual
\* rotation.  No clip plays, so nothing but applyPose writes the bones and
\* the base is the pose the bones started in.
NeckReleased ==
  /\ playback.currentClipLabel = ""
  /\ ~lookDownState.enabled
  /\ lookDownState.boneOffsets = NoOffsets

NeckReleaseRestoresBase ==
  NeckReleased => \A b \in Bones : boneRotationX[b] = clipPoseX

\* C40: every timed yaw turn (the locomotion turn before a walk, the gaze
\* body turn and the turn to the player of approach-and-face) rotates
\* through the shorter arc: its target angle and its start angle differ by
\* at most 180 degrees.
ShorterArc(turn) == turn.active => Abs(turn.targetAngle - turn.startAngle) <= 180

WalkTurnsShorterArc == ShorterArc(walkState.turnState)

BodyTurnsShorterArc == ShorterArc(lookAtState.turnState)

TurnToPlayerShorterArc == ShorterArc(comeHereFrontState.turnToPlayerState)

TurnsTakeShorterArc ==
  /\ WalkTurnsShorterArc
  /\ BodyTurnsShorterArc
  /\ TurnToPlayerShorterArc

====
